---- MODULE Spec2Model ----
(***************************************************************************)
(* A model of the TaskManager of src/src/lib/taskManager.ts: the task      *)
(* store, the status state machine, TTL expiry, the asynchronous           *)
(* executeTask / cancelTask / updateTaskStatus handlers with their await   *)
(* points, and the status-change notification fan-out.                     *)
(*                                                                         *)
(* Optional values of the program (a field that may be undefined) are      *)
(* sequences of length at most one: None is <<>>, Some(x) is <<x>>.        *)
(* Time is in milliseconds, as in the program.                             *)
(***************************************************************************)
EXTENDS Integers, Sequences, FiniteSets, TLC

(* ------------------------------------------------------------------ *)
(* Bounds of the model                                                 *)
(* ------------------------------------------------------------------ *)
\* The lifecycle specification follows this many tasks, clock movements,
\* asynchronous handlers and registered callbacks.
LifecycleTasks == 1
LifecycleTicks == 1
LifecycleCalls == 2
LifecycleCallbacks == 1
\* The execution specification follows this many tasks, clock movements,
\* executeTask calls and registered callbacks.
ExecutionTasks == 1
ExecutionTicks == 1
ExecutionCalls == 2
ExecutionCallbacks == 1
\* The retention specification follows this many tasks, clock movements and
\* asynchronous handlers; it registers no callback.
RetentionTasks == 2
RetentionTicks == 2
RetentionCalls == 1

(* ------------------------------------------------------------------ *)
(* Program constants (src/src/types/task.ts)                           *)
(* ------------------------------------------------------------------ *)
DEFAULT_TASK_TTL == 300000
MAX_TASK_TTL == 3600000
DEFAULT_POLL_INTERVAL == 5000
INTERNAL_ERROR == -32603
TASK_PAGE_SIZE == 20
DEFAULT_PAGE_SIZE == 20
MAX_PAGE_SIZE == 100

(* ------------------------------------------------------------------ *)
(* Program constants of the ProjectCache (src/unnamed/part_004)        *)
(* ------------------------------------------------------------------ *)
MAX_CACHE_SIZE == 5
CACHE_TTL == 300000
MAX_TOTAL_MEMORY_MB == 200
MAX_PROJECT_MEMORY_MB == 100
BASE_MEMORY_MB == 1
CLEANUP_INTERVAL == 60000
\* MEMORY_PER_FILE_MB is 0.5: memory is counted in units of which a
\* megabyte holds this many, one unit per file.
UNITS_PER_MB == 2

TERMINAL_STATUSES == {"completed", "failed", "cancelled"}
TaskStatus == {"working", "input_required", "completed", "failed", "cancelled"}

None == <<>>
Some(x) == <<x>>

Min(a, b) == IF a < b THEN a ELSE b
Max(a, b) == IF a > b THEN a ELSE b

\* The listing specification follows this many tasks, of which the first
\* ListingShortLived may be created with a ttl of one millisecond, and this
\* many clock movements, each of two milliseconds.
ListingTasks == 22
ListingShortLived == 1
ListingTicks == 1

\* The observer specification follows this many tasks, asynchronous
\* handlers and registered callbacks.
ObserverTasks == 1
ObserverCalls == 1
ObserverCallbacks == 2

\* The cache budget specification follows this many getOrCreate calls and
\* clock movements.
BudgetCalls == 6
BudgetTicks == 2

\* The eviction specification follows this many misses, hits and clock
\* movements.
EvictionMisses == 6
EvictionHits == 2
EvictionTicks == 2

\* The oversize specification follows this many getOrCreate calls,
\* directories and clock movements.
OversizeCalls == 3
OversizePaths == 2
OversizeTicks == 2

\* The cache key specification follows this many calls of the cache,
\* directories and clock movements.
KeyCalls == 3
KeyPaths == 2
KeyTicks == 2

\* The crowded-cache specification follows this many getOrCreate calls and
\* clock movements.
CrowdedCalls == 6
CrowdedTicks == 2

\* The paging specification pages lists of up to this many items, and
\* lists a page long and one item longer, with page sizes up to this and page
\* sizes at the defaults.
PagingItems == 3
PagingSizes == 3

\* The cursor specification follows this many tasks, and pages lists of up
\* to this many items with page sizes up to it.
CursorTasks == 1
CursorItems == 2

\* The expiry specification follows this many tasks, clock movements and
\* executeTask calls.
ExpiryTasks == 2
ExpiryTicks == 2
ExpiryCalls == 1

\* The ordering specification follows this many tasks, clock movements,
\* asynchronous handlers and registered callbacks.
OrderingTasks == 1
OrderingTicks == 1
OrderingCalls == 2
OrderingCallbacks == 2

\* The traversal specification follows this many tasks, of which the first
\* TraversalShortLived may be created with a ttl of one millisecond, and this
\* many clock movements, each of two milliseconds.
TraversalTasks == 21
TraversalShortLived == 1
TraversalTicks == 1

(* ------------------------------------------------------------------ *)
(* Inputs                                                              *)
(* ------------------------------------------------------------------ *)
\* Task ids: randomUUID() is modelled as drawing the next unused id.
\* NonExistent is an id that is never issued.
NonExistent == 0

\* taskParams?.ttl: absent, or a requested number of milliseconds.
RequestedTtls == {None, Some(1), Some(86400000)}

\* How far the clock moves between two steps of the program.
TimeSteps == {1, DEFAULT_TASK_TTL}

\* Registered observers.
Observers == {"o1", "o2"}

\* statusMessage arguments of updateTaskStatus / setInputRequired.
Messages == {None, Some("msg")}

\* What an executor can settle with: a result, or a thrown value that is
\* an Error instance, an error-shaped object, or anything else.
ExecutorResults == {"r1"}
ThrownValues ==
    { [kind |-> "Error", code |-> None, message |-> Some("boom"), data |-> None],
      [kind |-> "object", code |-> Some(-32000), message |-> Some("bad"), data |-> Some("d")],
      [kind |-> "object", code |-> None, message |-> None, data |-> None],
      [kind |-> "other", code |-> None, message |-> Some("oops"), data |-> None] }

VARIABLES
    tasks,            \* this.tasks: taskId -> StoredTask
    nextId,           \* the next id randomUUID() hands out
    now,              \* Date.now()
    ticks,            \* how often the clock has moved
    statusCallbacks,  \* this.statusCallbacks
    cleanupInterval,  \* this.cleanupInterval is set
    calls,            \* the asynchronous handler invocations in flight
    started,          \* how many asynchronous handlers have reached an await
    last,             \* what the last step did and returned
    listing,          \* what the last listTasks call returned, and the
                      \* traversal it belongs to
    pager,            \* the last paginateItems call: its arguments, what it
                      \* returned, and the traversal it belongs to
    cache,            \* the ProjectCache: its entries in the insertion order
                      \* of the Map, totalHits, totalMisses and lastCleanup
    cacheLast         \* what the last call of the ProjectCache did

managerVars == <<tasks, nextId, now, ticks, statusCallbacks, cleanupInterval, calls, started,
                 last, listing>>
cacheVars == <<cache, cacheLast>>
vars == <<managerVars, pager, cacheVars>>


(* ------------------------------------------------------------------ *)
(* Pure helpers of the TaskManager                                     *)
(* ------------------------------------------------------------------ *)

\* toPublicTask: the stored task without its internal fields.
toPublicTask(task) ==
    [ taskId        |-> task.taskId,
      status        |-> task.status,
      statusMessage |-> task.statusMessage,
      createdAt     |-> task.createdAt,
      lastUpdatedAt |-> task.lastUpdatedAt,
      ttl           |-> task.ttl,
      pollInterval  |-> task.pollInterval ]

\* isExpired: now - createdAt > ttl.
isExpiredAtTtl(task) == now - task.createdAt >= task.ttl
isExpired(task) == now - task.createdAt > task.ttl

\* createTask's ttl: min(taskParams?.ttl ?? DEFAULT_TASK_TTL, MAX_TASK_TTL).
UnclampedTtl(req) == IF req = None THEN DEFAULT_TASK_TTL ELSE req[1]
ClampTtl(req) == Min(IF req = None THEN DEFAULT_TASK_TTL ELSE req[1], MAX_TASK_TTL)

\* The record createTask stores.
NewStoredTask(taskId, req) ==
    [ taskId        |-> taskId,
      status        |-> "working",
      statusMessage |-> None,
      createdAt     |-> now,
      lastUpdatedAt |-> now,
      ttl           |-> ClampTtl(req),
      pollInterval  |-> DEFAULT_POLL_INTERVAL,
      method        |-> "tools/call",
      requestParams |-> "params",
      progressToken |-> None,
      result        |-> None,
      error         |-> None ]

\* cancelTask's writes to the task.
CancelWritesKeepTime(task) ==
    [task EXCEPT !.status = "cancelled",
                 !.statusMessage = Some("The task was cancelled by request.")]
CancelWrites(task) ==
    [task EXCEPT !.status = "cancelled",
                 !.statusMessage = Some("The task was cancelled by request."),
                 !.lastUpdatedAt = now]

\* updateTaskStatus's writes to the task: the message is kept when the
\* statusMessage argument is undefined.
UpdateWrites(task, status, statusMessage) ==
    [task EXCEPT !.status = status,
                 !.statusMessage = IF statusMessage # None THEN statusMessage ELSE @,
                 !.lastUpdatedAt = now]

\* completeTask's writes to the task.
CompleteWritesKeepMessage(task, result) ==
    [task EXCEPT !.status = "completed",
                 !.result = Some(result),
                 !.lastUpdatedAt = now]
CompleteWrites(task, result) ==
    [task EXCEPT !.status = "completed",
                 !.result = Some(result),
                 !.lastUpdatedAt = now,
                 !.statusMessage = None]

\* failTask's normalisation of the thrown value into {code, message, data?}.
NormalizeError(e) ==
    IF e.kind = "Error"
    THEN [code |-> INTERNAL_ERROR, message |-> e.message[1], data |-> None]
    ELSE IF e.kind = "object"
    THEN [ code    |-> IF e.code = None THEN INTERNAL_ERROR ELSE e.code[1],
           message |-> IF e.message = None THEN "Unknown error" ELSE e.message[1],
           data    |-> e.data ]
    ELSE [code |-> INTERNAL_ERROR, message |-> e.message[1], data |-> None]

\* failTask's writes to the task.
FailWrites(task, e) ==
    [task EXCEPT !.status = "failed",
                 !.lastUpdatedAt = now,
                 !.error = Some(NormalizeError(e)),
                 !.statusMessage = Some(NormalizeError(e).message)]

\* The ids whose records cleanupExpiredTasks deletes.
ExpiredIds == {id \in DOMAIN tasks : isExpired(tasks[id])}

\* The map without the given ids.
Without(ids) == [id \in DOMAIN tasks \ ids |-> tasks[id]]

(* ------------------------------------------------------------------ *)
(* Cursors and pages (src/types/task.ts)                               *)
(* ------------------------------------------------------------------ *)
\* A cursor string is modelled by what Buffer.from(s, 'base64url') followed
\* by JSON.parse makes of it:
\*   json    "empty":   the empty string, which `if (cursor)` takes as no cursor;
\*           "garbage": JSON.parse throws;
\*           "null":    it parses to null, and reading data.offset throws;
\*           "scalar":  it parses to a number, a string or a boolean;
\*           "object":  it parses to an object
\*   offset  the object's offset field: absent, a number, or a string
\*   limit   the object's limit field, likewise
Absent == [type |-> "absent", num |-> 0]
Number(n) == [type |-> "number", num |-> n]
String == [type |-> "string", num |-> 0]
CursorString(json, offset, limit) == [json |-> json, offset |-> offset, limit |-> limit]

\* encodeCursor(data): base64url of JSON.stringify({offset, limit}).
encodeCursor(data) == CursorString("object", Number(data.offset), Number(data.limit))

\* decodeCursor(cursor): the cursor data, or null when parsing throws or
\* offset or limit is not a number.
decodeCursorOffsetOnly(cursor) ==
    IF cursor.json # "object" \/ cursor.offset.type # "number" THEN None
    ELSE Some([offset |-> cursor.offset.num, limit |-> cursor.limit.num])
decodeCursor(cursor) ==
    IF cursor.json # "object" THEN None
    ELSE IF cursor.offset.type # "number" \/ cursor.limit.type # "number" THEN None
    ELSE Some([offset |-> cursor.offset.num, limit |-> cursor.limit.num])

\* The offset a reader takes from its optional cursor argument.
OffsetOf(cursor) ==
    IF cursor = None \/ cursor[1].json = "empty" THEN 0
    ELSE IF decodeCursor(cursor[1]) = None THEN 0
    ELSE decodeCursor(cursor[1])[1].offset

\* Array.prototype.slice(start, end) for integer arguments: a negative index
\* counts from the end, and both are clamped to the array.
SliceIndex(len, i) == IF i < 0 THEN Max(len + i, 0) ELSE Min(i, len)
slice(arr, start, end) ==
    LET from == SliceIndex(Len(arr), start)
        to   == SliceIndex(Len(arr), end)
    IN  IF from >= to THEN <<>> ELSE SubSeq(arr, from + 1, to)

\* Array.from(this.tasks.values()): the records in insertion order, which is
\* the order in which their ids were issued.
RECURSIVE Ascending(_)
Ascending(S) ==
    IF S = {} THEN <<>>
    ELSE LET m == CHOOSE x \in S : \A y \in S : x <= y
         IN  <<m>> \o Ascending(S \ {m})

\* Array.prototype.sort with (a, b) => b.createdAt - a.createdAt: newest
\* first, stable, so records of equal createdAt keep their order.
InsertBeforeEqual(sorted, t) ==
    LET k == Cardinality({i \in 1..Len(sorted) : sorted[i].createdAt > t.createdAt})
    IN  SubSeq(sorted, 1, k) \o <<t>> \o SubSeq(sorted, k + 1, Len(sorted))
InsertNewestFirst(sorted, t) ==
    LET k == Cardinality({i \in 1..Len(sorted) : sorted[i].createdAt >= t.createdAt})
    IN  SubSeq(sorted, 1, k) \o <<t>> \o SubSeq(sorted, k + 1, Len(sorted))
RECURSIVE SortNewestFirst(_)
SortNewestFirst(arr) ==
    IF arr = <<>> THEN <<>>
    ELSE InsertNewestFirst(SortNewestFirst(SubSeq(arr, 1, Len(arr) - 1)), arr[Len(arr)])

\* listTasks's allTasks: the non-expired records, newest first.
AllTasks ==
    LET ids == Ascending(DOMAIN tasks \ ExpiredIds)
    IN  SortNewestFirst([i \in 1..Len(ids) |-> tasks[ids[i]]])

\* The page listTasks cuts from allTasks at the offset, and its nextCursor.
ListTasksPage(allTasks, offset) ==
    LET paginatedTasks == slice(allTasks, offset, offset + TASK_PAGE_SIZE)
        hasMore == offset + TASK_PAGE_SIZE < Len(allTasks)
    IN  [ tasks      |-> [i \in 1..Len(paginatedTasks) |-> toPublicTask(paginatedTasks[i])],
          nextCursor |-> IF hasMore
                         THEN Some(encodeCursor([offset |-> offset + TASK_PAGE_SIZE,
                                                 limit  |-> TASK_PAGE_SIZE]))
                         ELSE None ]

\* What listTasks({cursor}) returns: allTasks is computed once.
ListTasksResult(cursor) ==
    CHOOSE result \in {ListTasksPage(allTasks, OffsetOf(cursor)) : allTasks \in {AllTasks}} :
        TRUE

\* What paginateItems(items, cursor, pageSize) returns; pageSize defaults to
\* DEFAULT_PAGE_SIZE.
PaginateKeepPageSize(items, cursor, pageSize) ==
    LET limit == IF pageSize = None THEN DEFAULT_PAGE_SIZE ELSE pageSize[1]
        offset == OffsetOf(cursor)
    IN  [ items      |-> slice(items, offset, offset + limit),
          total      |-> Len(items),
          nextCursor |-> IF offset + limit < Len(items)
                         THEN Some(encodeCursor([offset |-> offset + limit, limit |-> limit]))
                         ELSE None ]
PaginateItemsResult(items, cursor, pageSize) ==
    LET limit == Min(IF pageSize = None THEN DEFAULT_PAGE_SIZE ELSE pageSize[1],
                     MAX_PAGE_SIZE)
        offset == OffsetOf(cursor)
        paginatedItems == slice(items, offset, offset + limit)
        hasMore == offset + limit < Len(items)
    IN  [ items      |-> paginatedItems,
          total      |-> Len(items),
          nextCursor |-> IF hasMore
                         THEN Some(encodeCursor([offset |-> offset + limit, limit |-> limit]))
                         ELSE None ]

(* ------------------------------------------------------------------ *)
(* Handler invocations in flight                                       *)
(* ------------------------------------------------------------------ *)
\* An asynchronous handler that has reached an await holds:
\*   op       the public method that was called
\*   taskId   its task
\*   pc       "executor": executeTask awaits the executor;
\*            "notify":   notifyStatusChange awaits a callback;
\*            "return":   the fan-out is over, the handler has yet to return;
\*            "done":     the handler has returned
\*   snap     notifyStatusChange's publicTask
\*   idx      how many entries of the callback array the loop has passed
\*   arr      the array the loop iterates, when it is no longer
\*            this.statusCallbacks (dispose replaced it); else None
\*   obj      the handler's task object, when it is no longer in this.tasks
\*            (it was deleted or the map was cleared); else None
\*   registered  this.statusCallbacks as it was when notifyStatusChange was
\*            called
\*   invoked  the callbacks the loop has invoked so far
Slots == DOMAIN calls
Idle == [op |-> "idle", taskId |-> NonExistent, pc |-> "idle", snap |-> None,
         idx |-> 0, arr |-> None, obj |-> None, registered |-> <<>>, invoked |-> <<>>]

\* A handler that reaches an await takes the next slot.
NewSlot == started + 1

\* The array a fan-out iterates.
ArrayOf(c) == IF c.arr = None THEN statusCallbacks ELSE c.arr[1]
\* The task object a handler holds.
ObjectOf(c) == IF c.obj = None THEN tasks[c.taskId] ELSE c.obj[1]

\* Deleting records from the map leaves the objects with the handlers that
\* hold them.
Detach(cs, ids) ==
    [s \in Slots |->
        IF cs[s].pc \in {"notify", "return"} /\ cs[s].obj = None /\ cs[s].taskId \in ids
        THEN [cs[s] EXCEPT !.obj = Some(tasks[cs[s].taskId])]
        ELSE cs[s]]

\* Return values.
NoRet == [kind |-> "none", task |-> None, result |-> None, error |-> None,
          isTerminal |-> FALSE, message |-> "", count |-> 0]
RetNull == [NoRet EXCEPT !.kind = "null"]
RetVoid == [NoRet EXCEPT !.kind = "void"]
RetTask(t) == [NoRet EXCEPT !.kind = "task", !.task = Some(t)]
RetThrow(m) == [NoRet EXCEPT !.kind = "throw", !.message = m]
RetBool(b) == [NoRet EXCEPT !.kind = IF b THEN "true" ELSE "false"]
RetCount(n) == [NoRet EXCEPT !.kind = "number", !.count = n]

\* What a step reports: the operation, its task id, its return value (if it
\* returned), the observers it invoked with their argument, and the slot of
\* the handler that ran.
Did(op, id, ret, invoked, slot) ==
    [op |-> op, id |-> id, ret |-> ret, invoked |-> invoked, slot |-> slot]

\* The map with one more record.
With(id, task) == [i \in DOMAIN tasks \cup {id} |-> IF i = id THEN task ELSE tasks[i]]

(* ------------------------------------------------------------------ *)
(* notifyStatusChange                                                  *)
(* ------------------------------------------------------------------ *)
\* The loop of notifyStatusChange runs from entry idx+1 of the array until it
\* awaits a callback that returned, or until the array is exhausted.  A
\* callback that throws synchronously is caught and the loop goes on at
\* once.  k is the entry the loop stops at: entries idx+1..k-1 threw, entry k
\* returned and is awaited; k = Len(array)+1 says that every remaining entry
\* threw, or none remained, and the loop is over.
FanoutStops(c) ==
    IF c.idx >= Len(ArrayOf(c)) THEN {Len(ArrayOf(c)) + 1}
    ELSE (c.idx + 1)..(Len(ArrayOf(c)) + 1)

\* The callbacks one run of the loop invokes, in order, each with publicTask.
FanoutInvoked(c, k) ==
    [j \in 1..(Min(k, Len(ArrayOf(c))) - c.idx) |->
        [cb |-> ArrayOf(c)[c.idx + j], task |-> c.snap[1], threw |-> (c.idx + j < k)]]

\* The handler after that run of the loop.
FanoutCall(c, k) ==
    LET invoked == c.invoked \o [j \in 1..Len(FanoutInvoked(c, k)) |-> FanoutInvoked(c, k)[j].cb]
    IN  IF k <= Len(ArrayOf(c))
        THEN [c EXCEPT !.pc = "notify", !.idx = k, !.invoked = invoked]
        ELSE [c EXCEPT !.pc = "return", !.idx = Len(ArrayOf(c)), !.invoked = invoked]

\* A handler has written newTask and calls notifyStatusChange(task): it takes
\* publicTask and runs the loop up to its first await.
BeginNotify(s, op, step, id, newTask, k) ==
    LET c == [Idle EXCEPT !.op = op, !.taskId = id, !.snap = Some(toPublicTask(newTask)),
                          !.registered = statusCallbacks]
    IN  /\ k \in FanoutStops(c)
        /\ calls' = IF s \in Slots THEN [calls EXCEPT ![s] = FanoutCall(c, k)]
                    ELSE Append(calls, FanoutCall(c, k))
        /\ started' = Len(calls')
        /\ last' = Did(step, id, NoRet, FanoutInvoked(c, k), s)

(* ------------------------------------------------------------------ *)
(* Traversals of listTasks                                             *)
(* ------------------------------------------------------------------ *)
\* The last listTasks call: its cursor argument, the page and nextCursor it
\* returned, how many calls the traversal has made, and the concatenation
\* of the pages of the traversal.  A traversal starts with a call without a
\* cursor and goes on with each call that passes the nextCursor of the call
\* before; steady says that the call belongs to a traversal during which the
\* non-expired tasks have stayed the same.  Whatever happens between the
\* calls, whole says that the call belongs to a traversal, seen holds the ids
\* the pages of the traversal have returned, and stayed the ids of the tasks
\* that have been stored and not expired ever since the traversal started.
NoListing == [cursor |-> None, tasks |-> <<>>, nextCursor |-> None, calls |-> 0,
              walked |-> <<>>, steady |-> FALSE, whole |-> FALSE, seen |-> {},
              stayed |-> {}]

\* The ids of the non-expired records.
LiveIds == DOMAIN tasks \ ExpiredIds

\* A step that is no listTasks call: the traversal is abandoned when the
\* step changes the non-expired tasks.
ListingGoesOn ==
    listing' = IF LiveIds' = LiveIds /\ \A id \in LiveIds : tasks'[id] = tasks[id]
               THEN listing ELSE NoListing

\* A step that is no listTasks call, between the calls of a traversal that is
\* followed through changes of the store.
TraversalGoesOn ==
    listing' = [listing EXCEPT
                   !.steady = @ /\ LiveIds' = LiveIds
                                /\ \A id \in LiveIds : tasks'[id] = tasks[id],
                   !.stayed = @ \cap LiveIds']

(* ------------------------------------------------------------------ *)
(* paginateItems and its traversals                                    *)
(* ------------------------------------------------------------------ *)
\* The last paginateItems call: its arguments, what it returned, how many
\* calls the traversal has made and the concatenation of its pages.  A
\* traversal starts with a call without a cursor and goes on with each call
\* that passes the same items and pageSize and the nextCursor of the call
\* before.
NoPager == [items |-> <<>>, cursor |-> None, pageSize |-> None,
            ret |-> [items |-> <<>>, total |-> 0, nextCursor |-> None],
            calls |-> 0, walked |-> <<>>, whole |-> FALSE]

\* paginateItems(items, cursor, pageSize)
PaginateItems(items, cursor, pageSize) ==
    LET ret == PaginateItemsResult(items, cursor, pageSize)
        follows == /\ pager.whole
                   /\ items = pager.items
                   /\ pageSize = pager.pageSize
                   /\ cursor # None
                   /\ cursor = pager.ret.nextCursor
    IN  /\ pager' = [ items    |-> items,
                      cursor   |-> cursor,
                      pageSize |-> pageSize,
                      ret      |-> ret,
                      calls    |-> IF follows THEN pager.calls + 1 ELSE 1,
                      walked   |-> IF follows THEN pager.walked \o ret.items ELSE ret.items,
                      whole    |-> cursor = None \/ follows ]
        /\ UNCHANGED <<managerVars, cacheVars>>

(* ------------------------------------------------------------------ *)
(* The ProjectCache (src/unnamed/part_004)                             *)
(* ------------------------------------------------------------------ *)
\* A path string is modelled by the directory it names, whether it is
\* written with segments that path.normalize removes ('//', '/./'), and
\* whether it ends with a separator.  No path here is the root.
Path(dir, redundant, trailing) == [dir |-> dir, redundant |-> redundant, trailing |-> trailing]

\* path.normalize(p): resolves the redundant segments and keeps a trailing
\* separator.
normalize(p) == [p EXCEPT !.redundant = FALSE]

\* The key of getOrCreate: the normalized path without its trailing separator.
KeyOf(p) == [normalize(p) EXCEPT !.trailing = FALSE]

\* The key of invalidate: the normalized path.
InvalidateKey(p) == normalize(p)

\* getOrCreate's test of a cached entry: now - lastAccess < CACHE_TTL.
FreshAtTtl(entry) == now - entry.lastAccess <= CACHE_TTL
Fresh(entry) == now - entry.lastAccess < CACHE_TTL

\* estimatedMemoryMB = BASE_MEMORY_MB + fileCount * MEMORY_PER_FILE_MB, in units.
EstimatedMemory(fileCount) == BASE_MEMORY_MB * UNITS_PER_MB + fileCount

\* this.cache.get(key): the position of the key's entry, or 0.
IndexOf(entries, key) ==
    IF \E i \in 1..Len(entries) : entries[i].path = key
    THEN CHOOSE i \in 1..Len(entries) : entries[i].path = key
    ELSE 0

\* The entries without the one at position i.
DeleteAt(entries, i) == SubSeq(entries, 1, i - 1) \o SubSeq(entries, i + 1, Len(entries))

\* this.cache.delete(key)
DeleteKey(entries, key) ==
    IF IndexOf(entries, key) = 0 THEN entries ELSE DeleteAt(entries, IndexOf(entries, key))

\* this.cache.set(key, entry): a key that is present keeps its position.
SetKey(entries, entry) ==
    IF IndexOf(entries, entry.path) = 0 THEN Append(entries, entry)
    ELSE [entries EXCEPT ![IndexOf(entries, entry.path)] = entry]

\* getTotalMemoryUsage()
RECURSIVE TotalMemory(_)
TotalMemory(entries) ==
    IF entries = <<>> THEN 0
    ELSE entries[1].estimatedMemory + TotalMemory(Tail(entries))

\* removeExpired(): deletes the entries with now - lastAccess >= CACHE_TTL.
RECURSIVE removeExpired(_)
removeExpired(entries) ==
    IF entries = <<>> THEN <<>>
    ELSE IF now - entries[1].lastAccess >= CACHE_TTL THEN removeExpired(Tail(entries))
    ELSE <<entries[1]>> \o removeExpired(Tail(entries))

\* evictLRU's comparison score > lowestScore, for
\*   score = (age / CACHE_TTL) * 0.7 + (1 / (hitCount + 1)) * 0.3,
\* with both sides multiplied by 10 * CACHE_TTL * (a.hitCount + 1) * (b.hitCount + 1).
\* The scores of two entries within the bounds followed here never differ
\* by less than the rounding of the floating-point computation.
ScoreLess(a, b) ==
    7 * (now - a.lastAccess) * (a.hitCount + 1) * (b.hitCount + 1) + 3 * CACHE_TTL * (b.hitCount + 1)
      < 7 * (now - b.lastAccess) * (a.hitCount + 1) * (b.hitCount + 1) + 3 * CACHE_TTL * (a.hitCount + 1)
ScoreGreater(a, b) ==
    7 * (now - a.lastAccess) * (a.hitCount + 1) * (b.hitCount + 1) + 3 * CACHE_TTL * (b.hitCount + 1)
      > 7 * (now - b.lastAccess) * (a.hitCount + 1) * (b.hitCount + 1) + 3 * CACHE_TTL * (a.hitCount + 1)

\* evictLRU's loop from entry i on, with the victim found so far (0: none).
RECURSIVE ScanVictim(_, _, _)
ScanVictim(entries, i, victim) ==
    IF i > Len(entries) THEN victim
    ELSE ScanVictim(entries, i + 1,
                    IF victim = 0 \/ ScoreGreater(entries[i], entries[victim])
                    THEN i ELSE victim)

\* evictLRU()
evictLRU(entries) ==
    IF ScanVictim(entries, 1, 0) = 0 THEN entries
    ELSE DeleteAt(entries, ScanVictim(entries, 1, 0))

\* getOrCreate's loop that evicts until the new entry fits the memory budget.
EvictNothing(entries, estimated) == entries
RECURSIVE EvictUntilFits(_, _)
EvictUntilFits(entries, estimated) ==
    IF TotalMemory(entries) + estimated > MAX_TOTAL_MEMORY_MB * UNITS_PER_MB /\ Len(entries) > 0
    THEN EvictUntilFits(evictLRU(entries), estimated)
    ELSE entries

\* The keys of the entries.
Keys(entries) == {entries[i].path : i \in 1..Len(entries)}

\* What a call of the cache reports: the method, its path argument, the key
\* it used, whether getOrCreate hit, missed or served the handle uncached,
\* the handle it returned, the keys removeExpired deleted and the keys
\* evictLRU deleted.
NoCacheCall == [op |-> "new", path |-> Path(0, FALSE, FALSE), key |-> Path(0, FALSE, FALSE),
                outcome |-> "none", project |-> 0, swept |-> {}, evicted |-> {}]

\* getOrCreate(projectPath), the directory holding fileCount source files.
\* A new Project is a handle no call has returned before.
GetOrCreate(p, fileCount) ==
    LET key == KeyOf(p)
        i   == IndexOf(cache.entries, key)
    IN  /\ IF i > 0 /\ Fresh(cache.entries[IF i > 0 THEN i ELSE 1])
           THEN /\ cache' = [cache EXCEPT !.entries[i].lastAccess = now,
                                          !.entries[i].hitCount = @ + 1,
                                          !.totalHits = @ + 1]
                /\ cacheLast' = [NoCacheCall EXCEPT !.op = "getOrCreate", !.path = p,
                                    !.key = key, !.outcome = "hit",
                                    !.project = cache.entries[i].project]
           ELSE LET sweep     == now - cache.lastCleanup > CLEANUP_INTERVAL
                    e1        == IF sweep THEN removeExpired(cache.entries) ELSE cache.entries
                    e2        == IF Len(e1) >= MAX_CACHE_SIZE THEN evictLRU(e1) ELSE e1
                    project   == cache.totalMisses + 1
                    estimated == EstimatedMemory(fileCount)
                    tooLarge  == estimated > MAX_PROJECT_MEMORY_MB * UNITS_PER_MB
                    e3        == IF TotalMemory(e2) + estimated
                                        > MAX_TOTAL_MEMORY_MB * UNITS_PER_MB
                                 THEN EvictUntilFits(e2, estimated) ELSE e2
                    entry     == [path |-> key, project |-> project, lastAccess |-> now,
                                  fileCount |-> fileCount, estimatedMemory |-> estimated,
                                  hitCount |-> 0]
                    kept      == IF tooLarge THEN e2 ELSE e3
                IN  /\ cache' = [entries     |-> IF tooLarge THEN e2 ELSE SetKey(e3, entry),
                                 totalHits   |-> cache.totalHits,
                                 totalMisses |-> cache.totalMisses + 1,
                                 lastCleanup |-> IF sweep THEN now ELSE cache.lastCleanup]
                    /\ cacheLast' = [NoCacheCall EXCEPT
                                        !.op = "getOrCreate", !.path = p, !.key = key,
                                        !.outcome = IF tooLarge THEN "uncached" ELSE "miss",
                                        !.project = project,
                                        !.swept = Keys(cache.entries) \ Keys(e1),
                                        !.evicted = Keys(e1) \ Keys(kept)]
        /\ UNCHANGED <<managerVars, pager>>

\* invalidate(projectPath)
Invalidate(p) ==
    /\ cache' = [cache EXCEPT !.entries = DeleteKey(@, InvalidateKey(p))]
    /\ cacheLast' = [NoCacheCall EXCEPT !.op = "invalidate", !.path = p,
                                        !.key = InvalidateKey(p)]
    /\ UNCHANGED <<managerVars, pager>>

\* clear()
Clear ==
    /\ cache' = [cache EXCEPT !.entries = <<>>]
    /\ cacheLast' = [NoCacheCall EXCEPT !.op = "clear"]
    /\ UNCHANGED <<managerVars, pager>>

\* getStats().projects
StatsProjects ==
    [i \in 1..Len(cache.entries) |->
        [ path     |-> cache.entries[i].path,
          files    |-> cache.entries[i].fileCount,
          memory   |-> cache.entries[i].estimatedMemory,
          age      |-> (now - cache.entries[i].lastAccess) \div 1000,
          hits     |-> cache.entries[i].hitCount ]]

\* getStats().hitRate, in hundredths: Math.round(hitRate * 100) / 100, where
\* hitRate is totalHits / totalRequests, or 0 when there was no request.
\* Math.round rounds a half upwards.
StatsHitRate ==
    LET totalRequests == cache.totalHits + cache.totalMisses
    IN  IF totalRequests > 0
        THEN (2 * 100 * cache.totalHits + totalRequests) \div (2 * totalRequests)
        ELSE 0


(* ------------------------------------------------------------------ *)
(* Initial state: a constructed TaskManager                            *)
(* ------------------------------------------------------------------ *)
Init ==
    /\ tasks = [id \in {} |-> Idle]
    /\ nextId = 1
    /\ now = 0
    /\ ticks = 0
    /\ statusCallbacks = <<>>
    /\ cleanupInterval = TRUE
    /\ calls = <<>>
    /\ started = 0
    /\ last = Did("new", NonExistent, NoRet, <<>>, 0)
    /\ listing = NoListing
    /\ pager = NoPager
    /\ cache = [entries |-> <<>>, totalHits |-> 0, totalMisses |-> 0, lastCleanup |-> 0]
    /\ cacheLast = NoCacheCall


(* ------------------------------------------------------------------ *)
(* Operations                                                          *)
(* ------------------------------------------------------------------ *)
\* The task ids a caller may pass: the ids issued so far and one that never is.
ArgIds == {NonExistent} \cup 1..(nextId - 1)
\* Where a run of the fan-out loop may stop.
Stops == 1..(Len(statusCallbacks) + 1)

\* onStatusChange(callback)
OnStatusChange(o) ==
    /\ statusCallbacks' = Append(statusCallbacks, o)
    /\ last' = Did("onStatusChange", NonExistent, RetVoid, <<>>, 0)
    /\ UNCHANGED <<tasks, nextId, now, ticks, cleanupInterval, calls, started>>

\* The array without its entry at position i.
RemoveAt(arr, i) == SubSeq(arr, 1, i - 1) \o SubSeq(arr, i + 1, Len(arr))

\* offStatusChange(callback): splices the first occurrence out of the array.
OffStatusChange(o) ==
    /\ statusCallbacks' =
          IF \E i \in 1..Len(statusCallbacks) : statusCallbacks[i] = o
          THEN RemoveAt(statusCallbacks,
                        CHOOSE i \in 1..Len(statusCallbacks) :
                            /\ statusCallbacks[i] = o
                            /\ \A j \in 1..(i - 1) : statusCallbacks[j] # o)
          ELSE statusCallbacks
    /\ last' = Did("offStatusChange", NonExistent, RetVoid, <<>>, 0)
    /\ UNCHANGED <<tasks, nextId, now, ticks, cleanupInterval, calls, started>>

\* createTask(method, requestParams, taskParams)
CreateTask(req) ==
    /\ tasks' = With(nextId, NewStoredTask(nextId, req))
    /\ nextId' = nextId + 1
    /\ last' = Did("createTask", nextId,
                   RetTask(toPublicTask(NewStoredTask(nextId, req))), <<>>, 0)
    /\ UNCHANGED <<now, ticks, statusCallbacks, cleanupInterval, calls, started>>

\* executeTask(taskId, executor), up to its first await: it throws for a
\* task that is not in the map, else it calls the executor and awaits it.
ExecuteTaskNoLookup(id) ==
    /\ calls' = Append(calls, [Idle EXCEPT !.op = "executeTask", !.taskId = id,
                                           !.pc = "executor"])
    /\ started' = started + 1
    /\ last' = Did("executeTask", id, NoRet, <<>>, NewSlot)
    /\ UNCHANGED <<tasks, nextId, now, ticks, statusCallbacks, cleanupInterval>>
ExecuteTask(id) ==
    /\ IF id \notin DOMAIN tasks
       THEN /\ last' = Did("executeTask", id,
                           RetThrow("Task not found: " \o ToString(id)), <<>>, 0)
            /\ UNCHANGED <<calls, started>>
       ELSE /\ calls' = Append(calls, [Idle EXCEPT !.op = "executeTask", !.taskId = id,
                                                   !.pc = "executor"])
            /\ started' = started + 1
            /\ last' = Did("executeTask", id, NoRet, <<>>, NewSlot)
    /\ UNCHANGED <<tasks, nextId, now, ticks, statusCallbacks, cleanupInterval>>

\* The executor resolves with r: executeTask goes on into completeTask.
ExecutorResolves(s, r, k) ==
    /\ calls[s].pc = "executor"
    /\ IF calls[s].taskId \notin DOMAIN tasks
       THEN /\ calls' = [calls EXCEPT ![s].pc = "return"]
            /\ last' = Did("completeTask", calls[s].taskId, NoRet, <<>>, s)
            /\ k = 1
            /\ UNCHANGED <<tasks, started>>
       ELSE /\ tasks' = [tasks EXCEPT ![calls[s].taskId] = CompleteWrites(@, r)]
            /\ BeginNotify(s, "executeTask", "completeTask", calls[s].taskId,
                           CompleteWrites(tasks[calls[s].taskId], r), k)
    /\ UNCHANGED <<nextId, now, ticks, statusCallbacks, cleanupInterval>>

\* The executor rejects with e: executeTask goes on into failTask.
ExecutorRejects(s, e, k) ==
    /\ calls[s].pc = "executor"
    /\ IF calls[s].taskId \notin DOMAIN tasks
       THEN /\ calls' = [calls EXCEPT ![s].pc = "return"]
            /\ last' = Did("failTask", calls[s].taskId, NoRet, <<>>, s)
            /\ k = 1
            /\ UNCHANGED <<tasks, started>>
       ELSE /\ tasks' = [tasks EXCEPT ![calls[s].taskId] = FailWrites(@, e)]
            /\ BeginNotify(s, "executeTask", "failTask", calls[s].taskId,
                           FailWrites(tasks[calls[s].taskId], e), k)
    /\ UNCHANGED <<nextId, now, ticks, statusCallbacks, cleanupInterval>>

\* cancelTask({taskId}), up to its first await.
CancelTask(id, k) ==
    /\ IF id \notin DOMAIN tasks
       THEN /\ last' = Did("cancelTask", id, RetNull, <<>>, 0)
            /\ k = 1
            /\ UNCHANGED <<tasks, calls, started>>
       ELSE IF tasks[id].status \in TERMINAL_STATUSES
       THEN /\ last' = Did("cancelTask", id,
                           RetThrow("Cannot cancel task: already in terminal status '"
                                    \o tasks[id].status \o "'"), <<>>, 0)
            /\ k = 1
            /\ UNCHANGED <<tasks, calls, started>>
       ELSE /\ tasks' = [tasks EXCEPT ![id] = CancelWrites(@)]
            /\ BeginNotify(NewSlot, "cancelTask", "cancelTask", id,
                           CancelWrites(tasks[id]), k)
    /\ UNCHANGED <<nextId, now, ticks, statusCallbacks, cleanupInterval>>

\* The body of updateTaskStatus(taskId, status, statusMessage), up to its
\* first await, run on behalf of the public method op.
UpdateBodyNoTerminalCheck(op, id, status, statusMessage, k) ==
    IF id \notin DOMAIN tasks
    THEN /\ last' = Did(op, id, RetNull, <<>>, 0)
         /\ k = 1
         /\ UNCHANGED <<tasks, calls, started>>
    ELSE /\ tasks' = [tasks EXCEPT ![id] = UpdateWrites(@, status, statusMessage)]
         /\ BeginNotify(NewSlot, op, op, id,
                        UpdateWrites(tasks[id], status, statusMessage), k)
UpdateBody(op, id, status, statusMessage, k) ==
    IF id \notin DOMAIN tasks \/ tasks[id].status \in TERMINAL_STATUSES
    THEN /\ last' = Did(op, id, RetNull, <<>>, 0)
         /\ k = 1
         /\ UNCHANGED <<tasks, calls, started>>
    ELSE /\ tasks' = [tasks EXCEPT ![id] = UpdateWrites(@, status, statusMessage)]
         /\ BeginNotify(NewSlot, op, op, id,
                        UpdateWrites(tasks[id], status, statusMessage), k)

\* updateTaskStatus(taskId, status, statusMessage?)
UpdateTaskStatus(id, status, statusMessage, k) ==
    /\ UpdateBody("updateTaskStatus", id, status, statusMessage, k)
    /\ UNCHANGED <<nextId, now, ticks, statusCallbacks, cleanupInterval>>

\* setInputRequired(taskId, message?)
SetInputRequired(id, message, k) ==
    /\ UpdateBody("setInputRequired", id, "input_required",
                  IF message = None THEN Some("Input required to continue") ELSE message, k)
    /\ UNCHANGED <<nextId, now, ticks, statusCallbacks, cleanupInterval>>

\* resumeTask(taskId)
ResumeTaskAnyStatus(id, k) ==
    /\ UpdateBody("resumeTask", id, "working", Some("Task resumed"), k)
    /\ UNCHANGED <<nextId, now, ticks, statusCallbacks, cleanupInterval>>
ResumeTask(id, k) ==
    /\ IF id \notin DOMAIN tasks \/ tasks[id].status # "input_required"
       THEN /\ last' = Did("resumeTask", id, RetNull, <<>>, 0)
            /\ k = 1
            /\ UNCHANGED <<tasks, calls, started>>
       ELSE UpdateBody("resumeTask", id, "working", Some("Task resumed"), k)
    /\ UNCHANGED <<nextId, now, ticks, statusCallbacks, cleanupInterval>>

\* The callback a fan-out awaits settles (its promise is fulfilled, or it is
\* rejected and the rejection is caught and logged): the loop goes on.
CallbackSettles(s, rejected, k) ==
    /\ calls[s].pc = "notify"
    /\ k \in FanoutStops(calls[s])
    /\ calls' = [calls EXCEPT ![s] = FanoutCall(calls[s], k)]
    /\ last' = Did(IF rejected THEN "callbackRejected" ELSE "callbackFulfilled",
                   calls[s].taskId, NoRet, FanoutInvoked(calls[s], k), s)
    /\ UNCHANGED <<tasks, nextId, now, ticks, statusCallbacks, cleanupInterval, started>>

\* What a handler returns after its fan-out: executeTask nothing, the others
\* toPublicTask(task) of the task object they hold.
ReturnValue(c) ==
    IF c.op = "executeTask" THEN RetVoid ELSE RetTask(toPublicTask(ObjectOf(c)))

\* notifyStatusChange has returned: the handler returns.
Return(s) ==
    /\ calls[s].pc = "return"
    /\ calls' = [calls EXCEPT ![s] = [Idle EXCEPT !.op = calls[s].op,
                                                  !.taskId = calls[s].taskId,
                                                  !.pc = "done"]]
    /\ last' = Did(calls[s].op, calls[s].taskId, ReturnValue(calls[s]), <<>>, s)
    /\ UNCHANGED <<tasks, nextId, now, ticks, statusCallbacks, cleanupInterval, started>>


\* getTask({taskId})
GetTask(id) ==
    /\ IF id \notin DOMAIN tasks
       THEN /\ last' = Did("getTask", id, RetNull, <<>>, 0)
            /\ UNCHANGED <<tasks, calls>>
       ELSE IF isExpired(tasks[id])
       THEN /\ tasks' = Without({id})
            /\ calls' = Detach(calls, {id})
            /\ last' = Did("getTask", id, RetNull, <<>>, 0)
       ELSE /\ last' = Did("getTask", id, RetTask(toPublicTask(tasks[id])), <<>>, 0)
            /\ UNCHANGED <<tasks, calls>>
    /\ UNCHANGED <<nextId, now, ticks, statusCallbacks, cleanupInterval, started>>

\* The error getTaskResult reports for a cancelled task.
CancelledError == [code |-> INTERNAL_ERROR, message |-> "Task was cancelled", data |-> None]
\* The error getTaskResult reports for a failed task that stores none.
UnknownError ==
    [code |-> INTERNAL_ERROR, message |-> "Task failed with unknown error", data |-> None]

\* What getTaskResult returns for a stored task that has not expired.
TaskResultAlwaysTask(task) ==
    [NoRet EXCEPT !.kind = "result", !.task = Some(toPublicTask(task)),
                  !.isTerminal = FALSE]
TaskResultOf(task) ==
    IF task.status = "completed"
    THEN [NoRet EXCEPT !.kind = "result", !.result = task.result, !.isTerminal = TRUE]
    ELSE IF task.status = "failed"
    THEN [NoRet EXCEPT !.kind = "result",
                       !.error = IF task.error = None THEN Some(UnknownError)
                                 ELSE task.error,
                       !.isTerminal = TRUE]
    ELSE IF task.status = "cancelled"
    THEN [NoRet EXCEPT !.kind = "result", !.error = Some(CancelledError),
                       !.isTerminal = TRUE]
    ELSE [NoRet EXCEPT !.kind = "result", !.task = Some(toPublicTask(task)),
                       !.isTerminal = FALSE]

\* getTaskResult({taskId})
GetTaskResult(id) ==
    /\ IF id \notin DOMAIN tasks
       THEN /\ last' = Did("getTaskResult", id, RetNull, <<>>, 0)
            /\ UNCHANGED <<tasks, calls>>
       ELSE IF isExpired(tasks[id])
       THEN /\ tasks' = Without({id})
            /\ calls' = Detach(calls, {id})
            /\ last' = Did("getTaskResult", id, RetNull, <<>>, 0)
       ELSE /\ last' = Did("getTaskResult", id, TaskResultOf(tasks[id]), <<>>, 0)
            /\ UNCHANGED <<tasks, calls>>
    /\ UNCHANGED <<nextId, now, ticks, statusCallbacks, cleanupInterval, started>>

\* listTasks({cursor}): the page, then the sweep of the expired records.
ListTasks(cursor) ==
    \E ret \in {ListTasksResult(cursor)} :
    LET follows == /\ listing.steady
                   /\ cursor # None
                   /\ cursor = listing.nextCursor
        goesOn  == /\ listing.whole
                   /\ cursor # None
                   /\ cursor = listing.nextCursor
        page    == {ret.tasks[i].taskId : i \in 1..Len(ret.tasks)}
    IN  /\ tasks' = Without(ExpiredIds)
        /\ calls' = Detach(calls, ExpiredIds)
        /\ last' = Did("listTasks", NonExistent, NoRet, <<>>, 0)
        /\ listing' = [ cursor     |-> cursor,
                        tasks      |-> ret.tasks,
                        nextCursor |-> ret.nextCursor,
                        calls      |-> IF follows THEN listing.calls + 1 ELSE 1,
                        walked     |-> IF follows THEN listing.walked \o ret.tasks
                                       ELSE ret.tasks,
                        steady     |-> cursor = None \/ follows,
                        whole      |-> cursor = None \/ goesOn,
                        seen       |-> IF goesOn THEN listing.seen \cup page ELSE page,
                        stayed     |-> IF goesOn THEN listing.stayed \cap LiveIds
                                       ELSE LiveIds ]
        /\ UNCHANGED <<nextId, now, ticks, statusCallbacks, cleanupInterval, started>>

\* hasTask(taskId)
HasTask(id) ==
    /\ IF id \notin DOMAIN tasks
       THEN /\ last' = Did("hasTask", id, RetBool(FALSE), <<>>, 0)
            /\ UNCHANGED <<tasks, calls>>
       ELSE IF isExpired(tasks[id])
       THEN /\ tasks' = Without({id})
            /\ calls' = Detach(calls, {id})
            /\ last' = Did("hasTask", id, RetBool(FALSE), <<>>, 0)
       ELSE /\ last' = Did("hasTask", id, RetBool(TRUE), <<>>, 0)
            /\ UNCHANGED <<tasks, calls>>
    /\ UNCHANGED <<nextId, now, ticks, statusCallbacks, cleanupInterval, started>>

\* getActiveTaskCount(): cleanupExpiredTasks(), then the size of the map.
GetActiveTaskCount ==
    /\ tasks' = Without(ExpiredIds)
    /\ calls' = Detach(calls, ExpiredIds)
    /\ last' = Did("getActiveTaskCount", NonExistent,
                   RetCount(Cardinality(DOMAIN tasks \ ExpiredIds)), <<>>, 0)
    /\ UNCHANGED <<nextId, now, ticks, statusCallbacks, cleanupInterval, started>>

\* A timer whose callback deletes nothing.
CleanupTimerIdle ==
    /\ cleanupInterval
    /\ last' = Did("cleanupExpiredTasks", NonExistent, RetVoid, <<>>, 0)
    /\ UNCHANGED <<tasks, nextId, now, ticks, statusCallbacks, cleanupInterval, calls, started>>

\* The interval timer of startCleanupInterval fires: cleanupExpiredTasks().
\* The timer runs from construction until dispose clears it.
CleanupTimerFires ==
    /\ cleanupInterval
    /\ tasks' = Without(ExpiredIds)
    /\ calls' = Detach(calls, ExpiredIds)
    /\ last' = Did("cleanupExpiredTasks", NonExistent, RetVoid, <<>>, 0)
    /\ UNCHANGED <<nextId, now, ticks, statusCallbacks, cleanupInterval, started>>

\* dispose() without `this.statusCallbacks = []`.
DisposeKeepCallbacks ==
    /\ cleanupInterval' = FALSE
    /\ tasks' = Without(DOMAIN tasks)
    /\ calls' = Detach(calls, DOMAIN tasks)
    /\ last' = Did("dispose", NonExistent, RetVoid, <<>>, 0)
    /\ UNCHANGED <<nextId, now, ticks, statusCallbacks, started>>

\* dispose(): clears the timer and the map, and replaces the callback array
\* by a new empty one; a fan-out in flight keeps iterating the old array.
Dispose ==
    /\ cleanupInterval' = FALSE
    /\ tasks' = Without(DOMAIN tasks)
    /\ statusCallbacks' = <<>>
    /\ calls' = [s \in Slots |->
                    IF calls[s].pc = "notify" /\ calls[s].arr = None
                    THEN [Detach(calls, DOMAIN tasks)[s] EXCEPT !.arr = Some(statusCallbacks)]
                    ELSE Detach(calls, DOMAIN tasks)[s]]
    /\ last' = Did("dispose", NonExistent, RetVoid, <<>>, 0)
    /\ UNCHANGED <<nextId, now, ticks, started>>

\* The clock moves on by d milliseconds.
Tick(d) ==
    /\ now' = now + d
    /\ ticks' = ticks + 1
    /\ last' = Did("tick", NonExistent, NoRet, <<>>, 0)
    /\ UNCHANGED <<tasks, nextId, statusCallbacks, cleanupInterval, calls, started>>

\* A step of the TaskManager other than listTasks leaves the last listing
\* alone, and every step of the TaskManager leaves paginateItems alone.
NoPaginateItems == UNCHANGED <<pager, cacheVars>>
NoListTasks == UNCHANGED <<listing>> /\ NoPaginateItems

\* The part of the state space a specification follows.
Within(maxTasks, maxTicks, maxCalls, maxCallbacks) ==
    /\ nextId' <= maxTasks + 1
    /\ ticks' <= maxTicks
    /\ started' <= maxCalls
    /\ Len(statusCallbacks') <= maxCallbacks

(* ------------------------------------------------------------------ *)
(* The lifecycle of a task: the status transitions, the handlers'      *)
(* await points and the notification fan-out                           *)
(* ------------------------------------------------------------------ *)
InLifecycle == Within(LifecycleTasks, LifecycleTicks, LifecycleCalls, LifecycleCallbacks) /\ NoListTasks

NextLifecycle ==
    \/ OnStatusChange("o1") /\ InLifecycle
    \/ OffStatusChange("o1") /\ InLifecycle
    \/ CreateTask(None) /\ InLifecycle
    \/ \E id \in ArgIds : ExecuteTask(id) /\ InLifecycle
    \/ \E s \in Slots, r \in ExecutorResults, k \in Stops :
          ExecutorResolves(s, r, k) /\ InLifecycle
    \/ \E s \in Slots, e \in {x \in ThrownValues : x.kind = "Error"}, k \in Stops :
          ExecutorRejects(s, e, k) /\ InLifecycle
    \/ \E id \in ArgIds, k \in Stops : CancelTask(id, k) /\ InLifecycle
    \/ \E id \in ArgIds, st \in TaskStatus, k \in Stops :
          UpdateTaskStatus(id, st, Some("msg"), k) /\ InLifecycle
    \/ \E id \in ArgIds, k \in Stops : SetInputRequired(id, None, k) /\ InLifecycle
    \/ \E id \in ArgIds, k \in Stops : ResumeTask(id, k) /\ InLifecycle
    \/ \E s \in Slots, rejected \in BOOLEAN : \E k \in FanoutStops(calls[s]) :
          CallbackSettles(s, rejected, k) /\ InLifecycle
    \/ \E s \in Slots : Return(s) /\ InLifecycle
    \/ Tick(1) /\ InLifecycle

SpecLifecycle == Init /\ [][NextLifecycle]_vars

(* ------------------------------------------------------------------ *)
(* The execution of a task: executeTask with every kind of executor    *)
(* outcome and with callbacks that throw or reject                     *)
(* ------------------------------------------------------------------ *)
InExecution == Within(ExecutionTasks, ExecutionTicks, ExecutionCalls, ExecutionCallbacks) /\ NoListTasks

NextExecution ==
    \/ OnStatusChange("o1") /\ InExecution
    \/ CreateTask(None) /\ InExecution
    \/ \E id \in ArgIds : ExecuteTask(id) /\ InExecution
    \/ \E s \in Slots, r \in ExecutorResults, k \in Stops :
          ExecutorResolves(s, r, k) /\ InExecution
    \/ \E s \in Slots, e \in ThrownValues, k \in Stops :
          ExecutorRejects(s, e, k) /\ InExecution
    \/ \E s \in Slots, rejected \in BOOLEAN : \E k \in FanoutStops(calls[s]) :
          CallbackSettles(s, rejected, k) /\ InExecution
    \/ \E s \in Slots : Return(s) /\ InExecution
    \/ \E id \in ArgIds : GetTaskResult(id) /\ InExecution
    \/ Tick(1) /\ InExecution

SpecExecution == Init /\ [][NextExecution]_vars

(* ------------------------------------------------------------------ *)
(* The retention of a task: creation, the clock, the reads with their  *)
(* lazy expiry, the sweep and dispose                                  *)
(* ------------------------------------------------------------------ *)
InRetention == Within(RetentionTasks, RetentionTicks, RetentionCalls, 0) /\ NoListTasks

NextRetention ==
    \/ \E req \in RequestedTtls : CreateTask(req) /\ InRetention
    \/ \E id \in ArgIds : ExecuteTask(id) /\ InRetention
    \/ \E s \in Slots, r \in ExecutorResults : ExecutorResolves(s, r, 1) /\ InRetention
    \/ \E s \in Slots, e \in {x \in ThrownValues : x.kind = "other"} :
          ExecutorRejects(s, e, 1) /\ InRetention
    \/ \E id \in ArgIds : CancelTask(id, 1) /\ InRetention
    \/ \E id \in ArgIds, st \in TaskStatus :
          UpdateTaskStatus(id, st, None, 1) /\ InRetention
    \/ \E s \in Slots : Return(s) /\ InRetention
    \/ \E id \in ArgIds : GetTask(id) /\ InRetention
    \/ \E id \in ArgIds : GetTaskResult(id) /\ InRetention
    \/ CleanupTimerFires /\ InRetention
    \/ Tick(1) /\ InRetention

SpecRetention == Init /\ [][NextRetention]_vars

(* ------------------------------------------------------------------ *)
(* The observers: registration and removal, every kind of transition   *)
(* with its fan-out over several callbacks, and dispose                *)
(* ------------------------------------------------------------------ *)
InObservers == Within(ObserverTasks, 0, ObserverCalls, ObserverCallbacks) /\ NoListTasks

\* Each observer is registered at most once at a time.
NextObservers ==
    \/ \E o \in Observers :
          /\ \A i \in 1..Len(statusCallbacks) : statusCallbacks[i] # o
          /\ OnStatusChange(o) /\ InObservers
    \/ \E o \in Observers : OffStatusChange(o) /\ InObservers
    \/ CreateTask(None) /\ InObservers
    \/ \E id \in ArgIds : ExecuteTask(id) /\ InObservers
    \/ \E s \in Slots, r \in ExecutorResults, k \in Stops :
          ExecutorResolves(s, r, k) /\ InObservers
    \/ \E s \in Slots, e \in {x \in ThrownValues : x.kind = "Error"}, k \in Stops :
          ExecutorRejects(s, e, k) /\ InObservers
    \/ \E id \in ArgIds, k \in Stops : CancelTask(id, k) /\ InObservers
    \/ \E id \in ArgIds, k \in Stops :
          UpdateTaskStatus(id, "working", Some("msg"), k) /\ InObservers
    \/ \E id \in ArgIds, k \in Stops : SetInputRequired(id, None, k) /\ InObservers
    \/ \E id \in ArgIds, k \in Stops : ResumeTask(id, k) /\ InObservers
    \/ \E s \in Slots, rejected \in BOOLEAN : \E k \in FanoutStops(calls[s]) :
          CallbackSettles(s, rejected, k) /\ InObservers
    \/ \E s \in Slots : Return(s) /\ InObservers
    \/ \E id \in ArgIds : GetTask(id) /\ InObservers
    \/ GetActiveTaskCount /\ InObservers
    \/ Dispose /\ InObservers

SpecObservers == Init /\ [][NextObservers]_vars

(* ------------------------------------------------------------------ *)
(* The listing of tasks: more tasks than a page holds, some of them     *)
(* expiring, and listTasks with every kind of cursor                   *)
(* ------------------------------------------------------------------ *)
InListing == Within(ListingTasks, ListingTicks, 0, 0) /\ NoPaginateItems

\* Cursor strings that decodeCursor rejects.
RejectedCursors ==
    { CursorString("garbage", Absent, Absent),
      CursorString("null", Absent, Absent),
      CursorString("scalar", Absent, Absent),
      CursorString("object", Absent, Number(TASK_PAGE_SIZE)),
      CursorString("object", String, Number(TASK_PAGE_SIZE)),
      CursorString("object", Number(TASK_PAGE_SIZE), Absent),
      CursorString("object", Number(TASK_PAGE_SIZE), String) }

\* The cursor arguments of listTasks: none, the empty string, the cursor the
\* last call returned, and strings that are no cursor.
ListingCursors ==
    {None, Some(CursorString("empty", Absent, Absent)), listing.nextCursor}
        \cup {Some(c) : c \in RejectedCursors}

NextListing ==
    \/ CreateTask(None) /\ InListing /\ ListingGoesOn
    \/ CreateTask(Some(1)) /\ nextId <= ListingShortLived /\ InListing /\ ListingGoesOn
    \/ \E cursor \in ListingCursors : ListTasks(cursor) /\ InListing
    \/ Tick(2) /\ InListing /\ ListingGoesOn

SpecListing == Init /\ [][NextListing]_vars

(* ------------------------------------------------------------------ *)
(* Paging: paginateItems over lists shorter and longer than a page,    *)
(* and listTasks, with every kind of cursor                            *)
(* ------------------------------------------------------------------ *)
\* The item lists: <<1, ..., n>>.
ItemLists ==
    { [i \in 1..n |-> i] :
        n \in 0..PagingItems \cup {DEFAULT_PAGE_SIZE + 1, MAX_PAGE_SIZE, MAX_PAGE_SIZE + 1} }

\* The pageSize arguments: absent, or a number of items.
PageSizes ==
    {None} \cup {Some(n) : n \in 1..PagingSizes \cup {MAX_PAGE_SIZE, MAX_PAGE_SIZE + 1}}

\* The cursor arguments of paginateItems.
PagingCursors ==
    {None, Some(CursorString("empty", Absent, Absent)), pager.ret.nextCursor}
        \cup {Some(c) : c \in RejectedCursors}

NextPaging ==
    \E items \in ItemLists, cursor \in {None, pager.ret.nextCursor}, pageSize \in PageSizes :
        PaginateItems(items, cursor, pageSize)

SpecPaging == Init /\ [][NextPaging]_vars

(* ------------------------------------------------------------------ *)
(* Cursors: listTasks and paginateItems given every kind of cursor     *)
(* string                                                              *)
(* ------------------------------------------------------------------ *)
InCursors == Within(CursorTasks, 0, 0, 0) /\ NoPaginateItems

NextCursors ==
    \/ CreateTask(None) /\ InCursors /\ ListingGoesOn
    \/ \E cursor \in ListingCursors : ListTasks(cursor) /\ InCursors
    \/ \E n \in 0..CursorItems, cursor \in PagingCursors,
          pageSize \in {None} \cup {Some(k) : k \in 1..CursorItems} :
          PaginateItems([i \in 1..n |-> i], cursor, pageSize)

SpecCursors == Init /\ [][NextCursors]_vars

(* ------------------------------------------------------------------ *)
(* The ProjectCache                                                    *)
(* ------------------------------------------------------------------ *)
\* How far the clock moves between two calls of the cache.
CacheTimeSteps == {1, CACHE_TTL - 1}

\* The part of the cache's state space a specification follows.
WithinCache(maxHits, maxMisses, maxTicks) ==
    /\ cache'.totalHits <= maxHits
    /\ cache'.totalMisses <= maxMisses
    /\ ticks' <= maxTicks

\* The clock of the cache moves.
CacheTick(d) == Tick(d) /\ NoListTasks

(* The budget of the cache: a directory that is used again and again,   *)
(* and new directories, small and large                                *)
InBudget ==
    /\ cache'.totalHits + cache'.totalMisses <= BudgetCalls
    /\ ticks' <= BudgetTicks

NextBudget ==
    \/ \E d \in {1, cache.totalMisses + 1}, fileCount \in {0, 198} :
          GetOrCreate(Path(d, FALSE, FALSE), fileCount) /\ InBudget
    \/ \E d \in CacheTimeSteps : CacheTick(d) /\ InBudget

SpecBudget == Init /\ [][NextBudget]_vars

(* Eviction: small projects, used again at different times             *)
InEviction == WithinCache(EvictionHits, EvictionMisses, EvictionTicks)

NextEviction ==
    \/ \E d \in 1..(cache.totalMisses + 1) : GetOrCreate(Path(d, FALSE, FALSE), 0) /\ InEviction
    \/ \E d \in CacheTimeSteps : CacheTick(d) /\ InEviction

SpecEviction == Init /\ [][NextEviction]_vars

(* Oversized projects: directories whose number of files changes       *)
InOversize ==
    /\ cache'.totalHits + cache'.totalMisses <= OversizeCalls
    /\ ticks' <= OversizeTicks

NextOversize ==
    \/ \E d \in 1..OversizePaths, fileCount \in {0, 198, 199} :
          GetOrCreate(Path(d, FALSE, FALSE), fileCount) /\ InOversize
    \/ \E d \in CacheTimeSteps : CacheTick(d) /\ InOversize

SpecOversize == Init /\ [][NextOversize]_vars

(* A crowded cache: new directories, small ones and oversized ones,    *)
(* and the first directory again                                       *)
InCrowded ==
    /\ cache'.totalHits + cache'.totalMisses <= CrowdedCalls
    /\ ticks' <= CrowdedTicks

NextCrowded ==
    \/ \E d \in {1, cache.totalMisses + 1}, fileCount \in {0, 199} :
          GetOrCreate(Path(d, FALSE, FALSE), fileCount) /\ InCrowded
    \/ \E d \in CacheTimeSteps : CacheTick(d) /\ InCrowded

SpecCrowded == Init /\ [][NextCrowded]_vars

(* The keys of the cache: paths written in several ways, hits at and   *)
(* before the TTL, invalidate and clear                                *)
KeyPathsNow == {Path(d, r, t) : d \in 1..KeyPaths, r \in BOOLEAN, t \in BOOLEAN}

InKeys ==
    /\ cache'.totalHits + cache'.totalMisses <= KeyCalls
    /\ ticks' <= KeyTicks

NextKeys ==
    \/ \E p \in KeyPathsNow : GetOrCreate(p, 0) /\ InKeys
    \/ \E p \in KeyPathsNow : Invalidate(p) /\ InKeys
    \/ Clear /\ InKeys
    \/ \E d \in CacheTimeSteps : CacheTick(d) /\ InKeys

SpecKeys == Init /\ [][NextKeys]_vars

(* ------------------------------------------------------------------ *)
(* The expiry of tasks: short-lived and default tasks, the clock, every *)
(* operation that removes expired records, executors that settle late, *)
(* and dispose                                                         *)
(* ------------------------------------------------------------------ *)
InExpiry ==
    /\ Within(ExpiryTasks, ExpiryTicks, ExpiryCalls, 0)
    /\ ListingGoesOn
    /\ NoPaginateItems

\* The timer's sweep as a step of this specification.
Sweep == CleanupTimerFires /\ InExpiry

NextExpiry ==
    \/ \E req \in {None, Some(1)} : CreateTask(req) /\ InExpiry
    \/ \E id \in ArgIds : ExecuteTask(id) /\ InExpiry
    \/ \E s \in Slots, r \in ExecutorResults : ExecutorResolves(s, r, 1) /\ InExpiry
    \/ \E s \in Slots, e \in {x \in ThrownValues : x.kind = "Error"} :
          ExecutorRejects(s, e, 1) /\ InExpiry
    \/ \E s \in Slots : Return(s) /\ InExpiry
    \/ \E id \in ArgIds : GetTask(id) /\ InExpiry
    \/ \E id \in ArgIds : GetTaskResult(id) /\ InExpiry
    \/ \E id \in ArgIds : HasTask(id) /\ InExpiry
    \/ GetActiveTaskCount /\ InExpiry
    \/ ListTasks(None) /\ Within(ExpiryTasks, ExpiryTicks, ExpiryCalls, 0) /\ NoPaginateItems
    \/ Sweep
    \/ Dispose /\ InExpiry
    \/ Tick(1) /\ InExpiry

SpecExpiry == Init /\ [][NextExpiry]_vars

\* The same, with a sweep timer that keeps firing for as long as it is set.
SpecExpiryFair == Init /\ [][NextExpiry]_vars /\ WF_vars(Sweep)

(* ------------------------------------------------------------------ *)
(* The order of notifications: transitions of one task that overlap,   *)
(* with observers whose promises settle in any order                   *)
(* ------------------------------------------------------------------ *)
InOrdering ==
    /\ Within(OrderingTasks, OrderingTicks, OrderingCalls, OrderingCallbacks)
    /\ NoListTasks

NextOrdering ==
    \/ \E o \in Observers :
          /\ \A i \in 1..Len(statusCallbacks) : statusCallbacks[i] # o
          /\ OnStatusChange(o) /\ InOrdering
    \/ CreateTask(None) /\ InOrdering
    \/ \E id \in ArgIds, k \in Stops : SetInputRequired(id, None, k) /\ InOrdering
    \/ \E id \in ArgIds, k \in Stops : ResumeTask(id, k) /\ InOrdering
    \/ \E id \in ArgIds, k \in Stops : CancelTask(id, k) /\ InOrdering
    \/ \E s \in Slots, rejected \in BOOLEAN : \E k \in FanoutStops(calls[s]) :
          CallbackSettles(s, rejected, k) /\ InOrdering
    \/ \E s \in Slots : Return(s) /\ InOrdering
    \/ Tick(1) /\ InOrdering

SpecOrdering == Init /\ [][NextOrdering]_vars

(* ------------------------------------------------------------------ *)
(* Traversals of listTasks over a store that changes between the page  *)
(* requests: tasks are created, expire and are swept                   *)
(* ------------------------------------------------------------------ *)
InTraversal ==
    /\ Within(TraversalTasks, TraversalTicks, 0, 0)
    /\ NoPaginateItems

NextTraversal ==
    \/ CreateTask(None) /\ InTraversal /\ TraversalGoesOn
    \/ CreateTask(Some(1)) /\ nextId <= TraversalShortLived /\ InTraversal /\ TraversalGoesOn
    \/ \E cursor \in {None, listing.nextCursor} : ListTasks(cursor) /\ InTraversal
    \/ CleanupTimerFires /\ InTraversal /\ TraversalGoesOn
    \/ Tick(2) /\ InTraversal /\ TraversalGoesOn

SpecTraversal == Init /\ [][NextTraversal]_vars

(* ------------------------------------------------------------------ *)
(* The whole TaskManager                                               *)
(* ------------------------------------------------------------------ *)
Next ==
    \/ \E o \in Observers : OnStatusChange(o) /\ InLifecycle
    \/ \E o \in Observers : OffStatusChange(o) /\ InLifecycle
    \/ \E req \in RequestedTtls : CreateTask(req) /\ InLifecycle
    \/ \E id \in ArgIds : ExecuteTask(id) /\ InLifecycle
    \/ \E s \in Slots, r \in ExecutorResults, k \in Stops :
          ExecutorResolves(s, r, k) /\ InLifecycle
    \/ \E s \in Slots, e \in ThrownValues, k \in Stops :
          ExecutorRejects(s, e, k) /\ InLifecycle
    \/ \E id \in ArgIds, k \in Stops : CancelTask(id, k) /\ InLifecycle
    \/ \E id \in ArgIds, st \in TaskStatus, m \in Messages, k \in Stops :
          UpdateTaskStatus(id, st, m, k) /\ InLifecycle
    \/ \E id \in ArgIds, m \in Messages, k \in Stops :
          SetInputRequired(id, m, k) /\ InLifecycle
    \/ \E id \in ArgIds, k \in Stops : ResumeTask(id, k) /\ InLifecycle
    \/ \E s \in Slots, rejected \in BOOLEAN : \E k \in FanoutStops(calls[s]) :
          CallbackSettles(s, rejected, k) /\ InLifecycle
    \/ \E s \in Slots : Return(s) /\ InLifecycle
    \/ \E id \in ArgIds : GetTask(id) /\ InLifecycle
    \/ \E id \in ArgIds : GetTaskResult(id) /\ InLifecycle
    \/ \E cursor \in ListingCursors : ListTasks(cursor) /\ NoPaginateItems
    \/ \E items \in ItemLists, cursor \in PagingCursors, pageSize \in PageSizes :
          PaginateItems(items, cursor, pageSize)
    \/ \E id \in ArgIds : HasTask(id) /\ InLifecycle
    \/ GetActiveTaskCount /\ InLifecycle
    \/ CleanupTimerFires /\ InLifecycle
    \/ Dispose /\ InLifecycle
    \/ \E d \in TimeSteps : Tick(d) /\ InLifecycle

Spec == Init /\ [][Next]_vars

(* ------------------------------------------------------------------ *)
(* Properties                                                          *)
(* ------------------------------------------------------------------ *)
\* The step is a call of the public method op: it returned at once
\* (slot 0), or it reached its first await and took a new slot.
CallOf(op) ==
    /\ last'.op = op
    /\ \/ last'.slot = 0
       \/ started' = started + 1 /\ last'.slot = started'

\* The step is the return of the handler of op that ran in slot s.
ReturnOf(op, s) ==
    /\ s \in Slots
    /\ calls[s].op = op
    /\ calls[s].pc = "return"
    /\ calls'[s].pc = "done"

\* The step left the store and the handlers as they were and invoked no
\* callback.
NothingDone ==
    /\ tasks' = tasks
    /\ calls' = calls
    /\ last'.invoked = <<>>

\* The step changed no task other than id.
OthersKept(id) ==
    /\ DOMAIN tasks' = DOMAIN tasks
    /\ \A o \in DOMAIN tasks : o # id => tasks'[o] = tasks[o]

\* The callbacks a transition step invoked are the first entries of the
\* registered array, in order, each given the public task as written.
Notified(id) ==
    /\ Len(last'.invoked) <= Len(statusCallbacks)
    /\ Len(statusCallbacks) > 0 => Len(last'.invoked) > 0
    /\ \A j \in 1..Len(last'.invoked) :
          /\ last'.invoked[j].cb = statusCallbacks[j]
          /\ last'.invoked[j].task = toPublicTask(tasks'[id])

\* C1: once a stored task's status is completed, failed or cancelled, no
\* step changes that status while the record stays in the store.
C1_TerminalAbsorbing ==
    [][\A id \in DOMAIN tasks :
          (tasks[id].status \in TERMINAL_STATUSES /\ id \in DOMAIN tasks')
              => tasks'[id].status = tasks[id].status]_vars

\* C2: when cancelTask has succeeded on a task after executeTask started the
\* executor that is still in flight, the later settling of that executor
\* leaves the status cancelled and getTaskResult keeps giving the fixed
\* 'Task was cancelled' error.
C2_CancellationWins ==
    [][\A s \in Slots, c \in Slots :
          ( /\ calls[s].op = "executeTask" /\ calls[s].pc = "executor"
            /\ calls'[s].pc # "executor"
            /\ c > s
            /\ calls[c].op = "cancelTask" /\ calls[c].pc = "done"
            /\ calls[c].taskId = calls[s].taskId
            /\ calls[s].taskId \in DOMAIN tasks
            /\ tasks[calls[s].taskId].status = "cancelled" )
          => /\ tasks'[calls[s].taskId].status = "cancelled"
             /\ TaskResultOf(tasks'[calls[s].taskId]).error = Some(CancelledError)]_vars

\* C3: cancelTask returns null for an unknown id; for a terminal task it
\* throws an error naming the status and changes nothing; for a working or
\* input_required task it sets status cancelled, the fixed statusMessage and
\* lastUpdatedAt = now, notifies the observers and, when it returns, returns
\* the public projection of the task.
C3_CancelTask ==
    [][ /\ CallOf("cancelTask") =>
            LET id == last'.id IN
            IF id \notin DOMAIN tasks
            THEN last'.ret = RetNull /\ NothingDone
            ELSE IF tasks[id].status \in TERMINAL_STATUSES
            THEN /\ last'.ret = RetThrow("Cannot cancel task: already in terminal status '"
                                         \o tasks[id].status \o "'")
                 /\ NothingDone
            ELSE /\ tasks[id].status \in {"working", "input_required"}
                 /\ last'.ret = NoRet
                 /\ tasks'[id] = [tasks[id] EXCEPT
                        !.status = "cancelled",
                        !.statusMessage = Some("The task was cancelled by request."),
                        !.lastUpdatedAt = now]
                 /\ OthersKept(id)
                 /\ Notified(id)
        /\ \A s \in Slots : ReturnOf("cancelTask", s) =>
            /\ last'.ret.kind = "task"
            /\ last'.ret.task[1].taskId = calls[s].taskId
            /\ calls[s].taskId \in DOMAIN tasks
                  => last'.ret.task = Some(toPublicTask(tasks[calls[s].taskId]))
      ]_vars

\* C3 witness: cancelTask has just cancelled a working task some time after
\* its creation and invoked the registered observer.
C3_Witness ==
    /\ last.op = "cancelTask"
    /\ last.ret = NoRet
    /\ Len(last.invoked) = 1
    /\ last.id \in DOMAIN tasks
    /\ tasks[last.id].status = "cancelled"
    /\ tasks[last.id].lastUpdatedAt > tasks[last.id].createdAt

\* C4: updateTaskStatus and setInputRequired, called for an unknown id or a
\* task in a terminal status, return null (they never throw), change no
\* field of any stored task, start no fan-out and invoke no observer.
C4_UpdateRejectsSilently ==
    [][\A op \in {"updateTaskStatus", "setInputRequired"} :
          CallOf(op) =>
            /\ last'.ret.kind # "throw"
            /\ (last'.id \notin DOMAIN tasks
                  \/ tasks[last'.id].status \in TERMINAL_STATUSES)
               => last'.ret = RetNull /\ NothingDone]_vars

\* C4 witness: updateTaskStatus has just returned null for a stored terminal
\* task while an observer was registered.
C4_Witness ==
    /\ last.op = "updateTaskStatus"
    /\ last.ret = RetNull
    /\ last.id \in DOMAIN tasks
    /\ tasks[last.id].status \in TERMINAL_STATUSES
    /\ Len(statusCallbacks) > 0

\* C5: resumeTask, called for a task whose status is input_required, sets it
\* to working with statusMessage 'Task resumed' and later returns a task,
\* which is working with 'Task resumed' when nothing has written to the task
\* since; called for any other status or an unknown id it returns null and
\* changes nothing.
C5_ResumeTask ==
    [][ /\ CallOf("resumeTask") =>
            LET id == last'.id IN
            IF id \in DOMAIN tasks /\ tasks[id].status = "input_required"
            THEN /\ last'.ret = NoRet
                 /\ tasks'[id].status = "working"
                 /\ tasks'[id].statusMessage = Some("Task resumed")
                 /\ OthersKept(id)
            ELSE last'.ret = RetNull /\ NothingDone
        /\ \A s \in Slots : ReturnOf("resumeTask", s) =>
            /\ last'.ret.kind = "task"
            /\ last'.ret.task[1].taskId = calls[s].taskId
            /\ ( /\ calls[s].taskId \in DOMAIN tasks
                 /\ toPublicTask(tasks[calls[s].taskId]) = calls[s].snap[1] )
                  => /\ last'.ret.task[1].status = "working"
                     /\ last'.ret.task[1].statusMessage = Some("Task resumed")
      ]_vars

\* C5 witness: resumeTask has returned a working task with 'Task resumed'.
C5_Witness ==
    /\ last.op = "resumeTask"
    /\ last.ret.kind = "task"
    /\ last.ret.task[1].status = "working"
    /\ last.ret.task[1].statusMessage = Some("Task resumed")

\* C6: createTask accepts every requested ttl: it adds exactly one record,
\* under an id not issued before, with status working, createdAt =
\* lastUpdatedAt = now, pollInterval 5000 and ttl = min(requested or 300000,
\* 3600000), returns its projection and leaves the other records as they
\* were; every stored task has ttl <= 3600000.
C6_CreateTask ==
    [][ /\ \A req \in RequestedTtls : CreateTask(req) =>
            LET id == last'.id IN
            /\ id \notin DOMAIN tasks
            /\ id \notin 1..(nextId - 1)
            /\ DOMAIN tasks' = DOMAIN tasks \cup {id}
            /\ \A o \in DOMAIN tasks : tasks'[o] = tasks[o]
            /\ tasks'[id].status = "working"
            /\ tasks'[id].createdAt = now
            /\ tasks'[id].lastUpdatedAt = now
            /\ tasks'[id].pollInterval = 5000
            /\ tasks'[id].ttl = IF req = None THEN Min(300000, 3600000)
                                ELSE Min(req[1], 3600000)
            /\ last'.ret = RetTask(toPublicTask(tasks'[id]))
        /\ \A id \in DOMAIN tasks' : tasks'[id].ttl <= 3600000
      ]_vars

\* C6 witness: a second task has just been created with a requested ttl of
\* 86400000 and holds ttl 3600000.
C6_Witness ==
    /\ last.op = "createTask"
    /\ Cardinality(DOMAIN tasks) = 2
    /\ tasks[last.id].ttl = MAX_TASK_TTL

\* C7: executeTask for an id that is not in the store throws 'Task not
\* found', starts no executor, changes no stored task and invokes no
\* observer.
C7_ExecuteUnknown ==
    [][CallOf("executeTask") /\ last'.id \notin DOMAIN tasks
          => /\ last'.ret = RetThrow("Task not found: " \o ToString(last'.id))
             /\ NothingDone]_vars

\* C7 witness: executeTask has just thrown while a task is stored and an
\* observer is registered.
C7_Witness ==
    /\ last.op = "executeTask"
    /\ last.ret.kind = "throw"
    /\ DOMAIN tasks # {}
    /\ Len(statusCallbacks) > 0

\* The {code, message, data?} that the thrown value e is to be stored as.
ExpectedError(e) ==
    [ code    |-> IF e.kind = "object" /\ e.code # None THEN e.code[1] ELSE -32603,
      message |-> IF e.message # None THEN e.message[1] ELSE "Unknown error",
      data    |-> IF e.kind = "object" THEN e.data ELSE None ]

\* C8: executeTask for a stored task never rejects: whatever the executor
\* and the observers do it returns normally.  When the executor resolves with
\* r the stored task becomes completed with result r and no statusMessage;
\* when it rejects with e the task becomes failed with the error normalized
\* from e (code -32603 unless e is an object with a code) and statusMessage
\* equal to the error's message; and the task is still so when executeTask
\* returns, if nothing else has written to it.
C8_ExecuteTask ==
    [][ /\ \A s \in Slots, r \in ExecutorResults, k \in Stops :
            (ExecutorResolves(s, r, k) /\ calls[s].taskId \in DOMAIN tasks) =>
                LET id == calls[s].taskId IN
                /\ tasks'[id].status = "completed"
                /\ tasks'[id].result = Some(r)
                /\ tasks'[id].statusMessage = None
                /\ OthersKept(id)
        /\ \A s \in Slots, e \in ThrownValues, k \in Stops :
            (ExecutorRejects(s, e, k) /\ calls[s].taskId \in DOMAIN tasks) =>
                LET id == calls[s].taskId IN
                /\ tasks'[id].status = "failed"
                /\ tasks'[id].error = Some(ExpectedError(e))
                /\ tasks'[id].statusMessage = Some(ExpectedError(e).message)
                /\ OthersKept(id)
        /\ \A s \in Slots : ReturnOf("executeTask", s) =>
            /\ last'.ret = RetVoid
            /\ tasks' = tasks
            /\ ( /\ calls[s].snap # None
                 /\ calls[s].taskId \in DOMAIN tasks
                 /\ toPublicTask(tasks[calls[s].taskId]) = calls[s].snap[1] )
                  => LET t == tasks[calls[s].taskId] IN
                     \/ t.status = "completed" /\ t.result # None /\ t.statusMessage = None
                     \/ /\ t.status = "failed" /\ t.error # None
                        /\ t.statusMessage = Some(t.error[1].message)
        /\ last'.op = "executeTask" /\ last'.ret.kind = "throw"
              => last'.id \notin DOMAIN tasks
      ]_vars

\* C8 witness: executeTask has returned normally for a task that failed with
\* a thrown object's code kept, while an observer was registered.
C8_Witness ==
    /\ last.op = "executeTask"
    /\ last.ret = RetVoid
    /\ last.id \in DOMAIN tasks
    /\ tasks[last.id].status = "failed"
    /\ tasks[last.id].error = Some([code |-> -32000, message |-> "bad", data |-> Some("d")])
    /\ Len(statusCallbacks) > 0

\* C9: getTask for an unknown id returns null and leaves the store as it is;
\* for a stored task with now - createdAt > ttl it deletes that record, and
\* no other, and returns null; for a stored task with now - createdAt <= ttl
\* it returns the public projection and leaves the store as it is.
C9_GetTask ==
    [][last'.op = "getTask" =>
          LET id == last'.id IN
          IF id \notin DOMAIN tasks
          THEN last'.ret = RetNull /\ tasks' = tasks
          ELSE IF now - tasks[id].createdAt > tasks[id].ttl
          THEN /\ last'.ret = RetNull
               /\ DOMAIN tasks' = DOMAIN tasks \ {id}
               /\ \A o \in DOMAIN tasks' : tasks'[o] = tasks[o]
          ELSE /\ last'.ret = RetTask(toPublicTask(tasks[id]))
               /\ tasks' = tasks]_vars

\* C9 witness: getTask has just returned the projection of a task whose age
\* equals its ttl, after an older task was looked up and is gone.
C9_Witness ==
    /\ last.op = "getTask"
    /\ last.ret.kind = "task"
    /\ last.id \in DOMAIN tasks
    /\ now - tasks[last.id].createdAt = tasks[last.id].ttl
    /\ 1 \notin DOMAIN tasks

\* C10: getTaskResult returns null for an unknown or expired task; else
\* completed gives {result, isTerminal: true}, failed gives {error,
\* isTerminal: true}, cancelled gives the fixed error {-32603, 'Task was
\* cancelled'} with isTerminal: true, working and input_required give {task:
\* the public projection, isTerminal: false}; isTerminal is true exactly for
\* the three terminal statuses.
C10_GetTaskResult ==
    [][last'.op = "getTaskResult" =>
          LET id == last'.id
              ret == last'.ret IN
          IF id \notin DOMAIN tasks \/ now - tasks[id].createdAt > tasks[id].ttl
          THEN ret = RetNull
          ELSE /\ ret.kind = "result"
               /\ ret.isTerminal = (tasks[id].status \in {"completed", "failed", "cancelled"})
               /\ tasks[id].status = "completed" =>
                     ret.result = tasks[id].result /\ ret.error = None /\ ret.task = None
               /\ tasks[id].status = "failed" =>
                     /\ ret.error # None
                     /\ tasks[id].error # None => ret.error = tasks[id].error
                     /\ ret.result = None /\ ret.task = None
               /\ tasks[id].status = "cancelled" =>
                     /\ ret.error = Some([code |-> -32603, message |-> "Task was cancelled",
                                          data |-> None])
                     /\ ret.result = None /\ ret.task = None
               /\ tasks[id].status \in {"working", "input_required"} =>
                     /\ ret.task = Some(toPublicTask(tasks[id]))
                     /\ ret.result = None /\ ret.error = None]_vars

\* C10 witness: getTaskResult has just given the stored error of a failed
\* task as a terminal result.
C10_Witness ==
    /\ last.op = "getTaskResult"
    /\ last.ret.kind = "result"
    /\ last.ret.isTerminal
    /\ last.id \in DOMAIN tasks
    /\ tasks[last.id].status = "failed"
    /\ last.ret.error = tasks[last.id].error
    /\ tasks[last.id].error # None


\* walked[i] comes before the stored task id in the order of listTasks:
\* newer first, and of two tasks created at the same time the one inserted
\* first.
ListedBefore(t, id) ==
    \/ t.createdAt > tasks[id].createdAt
    \/ t.createdAt = tasks[id].createdAt /\ t.taskId < id

\* C11: in a traversal that started with listTasks({}) and followed each
\* nextCursor, with the non-expired tasks unchanged, every page holds at
\* most 20 tasks, the pages so far are the first tasks of the non-expired
\* tasks in createdAt-descending order (ties in insertion order), each task
\* once, a nextCursor is returned exactly when tasks remain, and when none
\* is returned every non-expired task has been listed.
C11_ListTasksTraversal ==
    listing.steady =>
        LET walked == listing.walked
            listed == {walked[i].taskId : i \in 1..Len(walked)}
        IN  /\ Len(listing.tasks) <= 20
            /\ \A i \in 1..Len(walked) :
                  /\ walked[i].taskId \in LiveIds
                  /\ walked[i] = toPublicTask(tasks[walked[i].taskId])
            /\ \A i \in 1..Len(walked), j \in 1..Len(walked) :
                  i < j => ListedBefore(walked[i], walked[j].taskId)
            /\ \A i \in 1..Len(walked) : \A id \in LiveIds \ listed :
                  ListedBefore(walked[i], id)
            /\ (listing.nextCursor # None) <=> (LiveIds \ listed # {})
            /\ listing.nextCursor = None => Len(walked) = Cardinality(LiveIds)
            /\ listing.nextCursor # None => Len(listing.tasks) = 20

\* C11 witness: a traversal of two calls has ended, the second page holding
\* what the first page of 20 left, over tasks some of which were created at
\* the same time and some not, after a task had expired.
C11_Witness ==
    /\ listing.steady
    /\ listing.calls = 2
    /\ listing.nextCursor = None
    /\ Len(listing.walked) = 21
    /\ Len(listing.tasks) = 1
    /\ nextId = 23
    /\ listing.walked[1].createdAt = listing.walked[2].createdAt
    /\ listing.walked[1].createdAt > listing.walked[21].createdAt


\* The no-cursor page of a list: its first items, up to the page size.
FirstItems(items, size) == [i \in 1..(IF size < Len(items) THEN size ELSE Len(items)) |-> items[i]]

C20_PaginateRoundTrip ==
    pager.whole =>
        LET size   == IF pager.pageSize = None THEN 20 ELSE pager.pageSize[1]
            limit  == IF size < 100 THEN size ELSE 100
            n      == Len(pager.items)
            page   == pager.ret.items
            walked == pager.walked
            offset == Len(walked) - Len(page)
        IN  /\ Len(page) <= limit
            /\ offset = (pager.calls - 1) * limit
            /\ Len(walked) <= n
            /\ \A i \in 1..Len(walked) : walked[i] = pager.items[i]
            /\ Len(page) = (IF offset + limit < n THEN limit ELSE n - offset)
            /\ (pager.ret.nextCursor # None) <=> (offset + limit < n)
            /\ pager.ret.nextCursor = None => walked = pager.items
            /\ pager.calls <= (IF n = 0 THEN 1 ELSE n)
            /\ pager.ret.total = n

\* C20 witness: a traversal of 101 items with a pageSize of 101 has ended
\* with its second call, a page of one item after a page of 100.
C20_Witness ==
    /\ pager.whole
    /\ Len(pager.items) = 101
    /\ pager.pageSize = Some(101)
    /\ pager.calls = 2
    /\ pager.ret.items = <<101>>
    /\ pager.ret.nextCursor = None
    /\ pager.walked = pager.items


\* How often the callback o occurs in the array arr.
Occurrences(arr, o) == Cardinality({i \in 1..Len(arr) : arr[i] = o})
\* The callbacks of the array arr.
CallbacksOf(arr) == {arr[i] : i \in 1..Len(arr)}

\* C13: a transition invokes the observers registered when it is made, each
\* once and in registration order, with the task's public projection, and
\* none that offStatusChange had removed before; an observer that throws or
\* rejects keeps no later observer from being invoked, changes no task
\* field, and does not make the transition call fail.  Stated for the
\* observers that are still registered when the call returns.
C13_ObserversNotified ==
    [][ /\ \A s \in Slots :
            (Return(s) /\ calls[s].snap # None) =>
                LET c == calls[s] IN
                /\ last'.ret.kind # "throw"
                /\ \A o \in CallbacksOf(c.registered) \cap CallbacksOf(statusCallbacks) :
                      Occurrences(c.invoked, o) = Occurrences(c.registered, o)
                /\ \A a \in 1..Len(c.invoked), b \in 1..Len(c.invoked) :
                      ( /\ a < b
                        /\ c.invoked[a] \in CallbacksOf(c.registered)
                        /\ c.invoked[b] \in CallbacksOf(c.registered) )
                      => \E i \in 1..Len(c.registered), j \in 1..Len(c.registered) :
                            i <= j /\ c.registered[i] = c.invoked[a]
                                   /\ c.registered[j] = c.invoked[b]
        /\ last'.op \in {"callbackRejected", "callbackFulfilled"} => tasks' = tasks
        /\ last'.op \notin {"callbackRejected", "callbackFulfilled"} =>
              \A j \in 1..Len(last'.invoked) :
                  /\ last'.invoked[j].cb \in CallbacksOf(statusCallbacks)
                  /\ last'.id \in DOMAIN tasks'
                  /\ last'.invoked[j].task = toPublicTask(tasks'[last'.id])
      ]_vars


\* C14: dispose() stops the sweep timer, empties the store and removes every
\* observer; called right after it, getActiveTaskCount() gives 0 and getTask
\* gives null for every id.
C14_Dispose ==
    [][ /\ last'.op = "dispose" =>
              /\ ~cleanupInterval'
              /\ DOMAIN tasks' = {}
              /\ statusCallbacks' = <<>>
        /\ (last.op = "dispose" /\ last'.op = "getActiveTaskCount") =>
              last'.ret.kind = "number" /\ last'.ret.count = 0
        /\ (last.op = "dispose" /\ last'.op = "getTask") => last'.ret.kind = "null"
      ]_vars

\* C14 witness: getTask has just returned null for the id of a task that was
\* created while two observers were registered, after a dispose that came
\* while a handler was in flight.
C14_Witness ==
    /\ last.op = "getTask"
    /\ last.ret.kind = "null"
    /\ last.id = 1
    /\ nextId = 2
    /\ ~cleanupInterval
    /\ DOMAIN tasks = {}
    /\ statusCallbacks = <<>>
    /\ \E s \in Slots : calls[s].pc = "notify" /\ Len(calls[s].registered) = 2


\* The sum of the estimated memory of the first n cached entries, in units
\* of half a megabyte.
RECURSIVE MemoryOfFirst(_)
MemoryOfFirst(n) ==
    IF n = 0 THEN 0 ELSE cache.entries[n].estimatedMemory + MemoryOfFirst(n - 1)

\* C15: the cache never holds more than MAX_CACHE_SIZE (5) entries, nor
\* entries whose estimatedMemoryMB sum to more than MAX_TOTAL_MEMORY_MB
\* (200), and it holds at most one entry per key.
C15_CacheBounds ==
    /\ Len(cache.entries) <= 5
    /\ MemoryOfFirst(Len(cache.entries)) <= 200 * 2
    /\ \A i \in 1..Len(cache.entries), j \in 1..Len(cache.entries) :
          cache.entries[i].path = cache.entries[j].path => i = j

\* C15 witness: a miss has re-created a key whose expired entry was still
\* in the cache, and the cache holds 200 MB.
C15_Witness ==
    /\ cacheLast.op = "getOrCreate"
    /\ cacheLast.outcome = "miss"
    /\ cacheLast.key \in cacheLast.evicted
    /\ cacheLast.swept = {}
    /\ MemoryOfFirst(Len(cache.entries)) = 200 * 2


\* A step is a call of getOrCreate: it is counted as a hit or as a miss.
IsGetOrCreate ==
    cache'.totalHits + cache'.totalMisses = cache.totalHits + cache.totalMisses + 1

\* C16: getOrCreate returns a cached handle exactly when the cache holds an
\* entry under the normalized key with now - lastAccess < CACHE_TTL; it then
\* builds nothing, sets that entry's lastAccess to now, adds one to its
\* hitCount and leaves the other entries as they are.  With no such entry,
\* also with one of age CACHE_TTL or more, the call is a miss that builds a
\* handle no entry holds.
C16_LiveHit ==
    [][IsGetOrCreate =>
          LET key  == cacheLast'.key
              old  == cache.entries
              live == {i \in 1..Len(old) : old[i].path = key /\ now - old[i].lastAccess < 300000}
          IN  /\ key = [dir |-> cacheLast'.path.dir, redundant |-> FALSE, trailing |-> FALSE]
              /\ IF live # {}
                 THEN /\ cacheLast'.outcome = "hit"
                      /\ cache'.totalMisses = cache.totalMisses
                      /\ Len(cache'.entries) = Len(old)
                      /\ \A i \in 1..Len(old) :
                            IF i \in live
                            THEN /\ cacheLast'.project = old[i].project
                                 /\ cache'.entries[i] =
                                       [old[i] EXCEPT !.lastAccess = now,
                                                      !.hitCount = old[i].hitCount + 1]
                            ELSE cache'.entries[i] = old[i]
                 ELSE /\ cacheLast'.outcome \in {"miss", "uncached"}
                      /\ cache'.totalMisses = cache.totalMisses + 1
                      /\ \A i \in 1..Len(old) : old[i].project # cacheLast'.project
      ]_vars

\* C16 witness: a path written with a trailing separator has just missed on
\* its key, whose entry had reached the age CACHE_TTL after an earlier hit.
C16_Witness ==
    /\ cacheLast.op = "getOrCreate"
    /\ cacheLast.outcome = "miss"
    /\ cacheLast.path.trailing
    /\ cache.totalHits = 1
    /\ cache.totalMisses = 2
    /\ now = 300000
    /\ Len(cache.entries) = 1
    /\ cache.entries[1].path = cacheLast.key


\* Ten times CACHE_TTL times (hitCount + 1) times the eviction score
\* 0.7 * (age / CACHE_TTL) + 0.3 * (1 / (hitCount + 1)) of an entry.
ScaledScore(e) == 7 * (now - e.lastAccess) * (e.hitCount + 1) + 3 * 300000

C18_OversizedNeverCached ==
    (cacheLast.op = "getOrCreate" /\ cacheLast.outcome = "uncached")
        => \A i \in 1..Len(StatsProjects) : StatsProjects[i].path # cacheLast.key

\* C19: after invalidate(k) the cache holds no entry under the key that
\* getOrCreate(k) uses, however k is written, and after clear() it holds no
\* entry at all.
C19_InvalidateBusts ==
    /\ cacheLast.op = "invalidate"
          => \A i \in 1..Len(cache.entries) : cache.entries[i].path # KeyOf(cacheLast.path)
    /\ cacheLast.op = "clear" => cache.entries = <<>>


\* C21: a stored task never carries both a result and an error; it carries a
\* result only while its status is completed and an error only while its
\* status is failed.
C21_ResultErrorExclusive ==
    \A id \in DOMAIN tasks :
        /\ ~(tasks[id].result # None /\ tasks[id].error # None)
        /\ tasks[id].result # None => tasks[id].status = "completed"
        /\ tasks[id].error # None => tasks[id].status = "failed"


\* The edges of the status state machine.
ValidTransition(from, to) ==
    \/ from = "working" /\ to \in {"input_required", "completed", "failed", "cancelled"}
    \/ from = "input_required" /\ to \in {"working", "completed", "failed", "cancelled"}

\* C22: every change of the status of a task that stays in the store follows
\* an edge of the state machine.
C22_ValidTransitions ==
    [][\A id \in DOMAIN tasks \cap DOMAIN tasks' :
          tasks'[id].status # tasks[id].status
              => ValidTransition(tasks[id].status, tasks'[id].status)]_vars


\* The steps that remove expired records: the timer's sweep and the reads.
RemovingOps ==
    {"cleanupExpiredTasks", "getTask", "getTaskResult", "listTasks", "hasTask",
     "getActiveTaskCount"}

\* C23: the passing of time changes no task; the sweep, getTask,
\* getTaskResult, listTasks, hasTask and getActiveTaskCount change no record
\* and remove only records with now - createdAt > ttl; and an executor that
\* settles after its task's record was removed adds no record.
C23_RetentionOnly ==
    [][/\ last'.op = "tick" => tasks' = tasks
       /\ last'.op \in RemovingOps =>
             /\ DOMAIN tasks' \subseteq DOMAIN tasks
             /\ \A id \in DOMAIN tasks :
                   IF id \in DOMAIN tasks'
                   THEN tasks'[id] = tasks[id]
                   ELSE now - tasks[id].createdAt > tasks[id].ttl
       /\ (last'.op \in {"completeTask", "failTask"} /\ last'.id \notin DOMAIN tasks)
             => tasks' = tasks
      ]_vars

\* C23 witness: the executor of a task whose record had been removed after
\* its ttl has settled, and the store holds only a task of age exactly ttl.
C23_Witness ==
    /\ last.op \in {"completeTask", "failTask"}
    /\ last.id = 1
    /\ DOMAIN tasks = {2}
    /\ now - tasks[2].createdAt = tasks[2].ttl
    /\ tasks[2].status = "working"
    /\ cleanupInterval


\* C24: while the sweep timer is set and keeps firing, every stored task with
\* now - createdAt > ttl is eventually removed from the store, whether or not
\* anything reads it and whether or not its executor settles.
C24_ExpiredEventuallySwept ==
    \A id \in 1..ExpiryTasks :
        (/\ cleanupInterval
         /\ id \in DOMAIN tasks
         /\ now - tasks[id].createdAt > tasks[id].ttl) ~> (id \notin DOMAIN tasks)

\* C24 witness: the timer's sweep has run with the timer still set, the
\* short-lived first task is gone while its executor has not settled, and
\* the second task, not expired, is still stored.
C24_Witness ==
    /\ last.op = "cleanupExpiredTasks"
    /\ cleanupInterval
    /\ now = 2
    /\ DOMAIN tasks = {2}
    /\ \E s \in Slots : calls[s].taskId = 1 /\ calls[s].pc = "executor"


\* C25: every getOrCreate call is counted once, as a hit when it returns a
\* cached entry and as a miss otherwise, invalidate and clear leave the
\* counts alone, and getStats().hitRate is hits / (hits + misses): the
\* hundredths it reports, times the calls, are a hundred times the hits.
C25_HitRate ==
    [][/\ (cacheLast'.op = "getOrCreate" /\ cache' # cache) =>
             /\ cache'.totalHits =
                   cache.totalHits + (IF cacheLast'.outcome = "hit" THEN 1 ELSE 0)
             /\ cache'.totalMisses =
                   cache.totalMisses + (IF cacheLast'.outcome = "hit" THEN 0 ELSE 1)
       /\ cacheLast'.op \in {"invalidate", "clear"} =>
             /\ cache'.totalHits = cache.totalHits
             /\ cache'.totalMisses = cache.totalMisses
       /\ StatsHitRate' * (cache'.totalHits + cache'.totalMisses) = 100 * cache'.totalHits
      ]_vars


\* C26: cancelTask, updateTaskStatus, setInputRequired and resumeTask, called
\* on a stored task with now - createdAt > ttl, return null, start no
\* handler, invoke no observer and leave the record as it is, if they leave it
\* in the store at all.
C26_ExpiredUnreachable ==
    [][\A id \in DOMAIN tasks :
          (/\ now - tasks[id].createdAt > tasks[id].ttl
           /\ last'.id = id
           /\ \E op \in {"cancelTask", "updateTaskStatus", "setInputRequired", "resumeTask"} :
                 CallOf(op))
              => /\ last'.ret = RetNull
                 /\ last'.invoked = <<>>
                 /\ calls' = calls
                 /\ id \in DOMAIN tasks' => tasks'[id] = tasks[id]
                 /\ OthersKept(id) \/ id \notin DOMAIN tasks'
      ]_vars


\* C27: an observer is never handed a notification of a transition of a task
\* after it was handed the notification of a later transition of that task.
\* Stated for transitions made at different times, while the handler of the
\* later one has not returned.
C27_NotificationOrder ==
    [][\A j \in 1..Len(last'.invoked) : \A s \in Slots :
          (/\ s # last'.slot
           /\ calls[s].snap # None
           /\ calls[s].snap[1].taskId = last'.invoked[j].task.taskId
           /\ calls[s].snap[1].lastUpdatedAt > last'.invoked[j].task.lastUpdatedAt)
              => last'.invoked[j].cb \notin CallbacksOf(calls[s].invoked)
      ]_vars


\* C28: when a traversal that started with listTasks({}) and followed each
\* nextCursor has ended, every task that was stored and not expired from its
\* first call on has been returned by one of its pages.
C28_TraversalCoversStayers ==
    (listing.whole /\ listing.nextCursor = None) => listing.stayed \subseteq listing.seen


\* C29: a getOrCreate call that returns an oversized resource uncached leaves
\* every entry with now - lastAccess < CACHE_TTL in the cache, with its
\* lastAccess and hitCount as they were.
C29_OversizedEvictsNothing ==
    [][(IsGetOrCreate /\ cacheLast'.outcome = "uncached") =>
          \A i \in 1..Len(cache.entries) :
              now - cache.entries[i].lastAccess < 300000
                  => \E j \in 1..Len(cache'.entries) : cache'.entries[j] = cache.entries[i]
      ]_vars


\* C30: once dispose() has returned, no step invokes an observer that is not
\* registered at that time, which an observer registered only before the
\* dispose is not, and no step other than a createTask, with a new id,
\* puts a record into the store.
C30_AfterDispose ==
    [][~cleanupInterval =>
          /\ \A j \in 1..Len(last'.invoked) :
                last'.invoked[j].cb \in CallbacksOf(statusCallbacks)
          /\ \A id \in DOMAIN tasks' \ DOMAIN tasks :
                last'.op = "createTask" /\ id = nextId
      ]_vars

====
